---- MODULE Spec2Model ----
(***************************************************************************)
(* Order synchronisation of the planogram backend.                         *)
(*                                                                         *)
(* Two builds of the server are modelled side by side; `build` says which  *)
(* one is deployed:                                                        *)
(*   "server" - src/server.js: POST /api/shopify action refreshOrders,     *)
(*              backgroundOrderSync (timer and POST /api/orders/sync-now), *)
(*              importOrderData;                                           *)
(*   "blitz"  - src/unnamed/part_001: POST /api/order-blitz and            *)
(*              calculateCorrelations.                                     *)
(*                                                                         *)
(* One step of the model is what the single-threaded event loop executes   *)
(* between two suspension points: the arrival of a request together with   *)
(* the synchronous prefix of its handler, or the completion of one awaited *)
(* remote fetch or store statement together with the code up to the next   *)
(* await (promise callbacks included).                                     *)
(*                                                                         *)
(* Time is counted in hours since 2024-01-01T00:00Z.                       *)
(***************************************************************************)
EXTENDS Integers, Sequences, FiniteSets, TLC

VARIABLES
  build,                  \* which build is deployed
  now,                    \* the wall clock
  remote,                 \* the orders the commerce platform holds; id = index
  lastSettings,           \* server.js: TRUE once POST /api/settings stored credentials
  orderProcessingStatus,  \* [isProcessing, lastCompleted, lastResult]
  orders,                 \* table orders
  order_items,            \* table order_items, in insertion (SERIAL id) order
  product_correlations,   \* table product_correlations
  runs,                   \* the sync runs in progress, oldest first
  tasks,                  \* part_001: the calculateCorrelations() calls in flight
  resp,                   \* the HTTP response sent by the last step ("none": none)
  started,                \* sync runs started so far
  faults,                 \* failures of remote or store calls so far
  lastRun,                \* log: how the run that ended last ended, and what it left
  catalog,                \* the products the commerce platform holds
  products,               \* table products
  sales_data,             \* table sales_data
  jobs,                   \* the product and sales syncs and lookups in progress
  reply,                  \* the body of the last response, where it matters
  lastJob,                \* log: how the sync that ended last ended, and what it left
  productCache,           \* in-memory cache: the products fetched, by position
  cacheStatus,            \* in-memory cache: 'empty', 'loading', 'ready', 'error'
  cacheRefreshInProgress  \* in-memory cache: a refreshProductCache call is executing

\* The state of the catalog side: product sync, sales sync, lookups.
pvars == <<catalog, products, sales_data, jobs, reply, lastJob>>

\* The in-memory product cache of the cache servers.
mvars == <<productCache, cacheStatus, cacheRefreshInProgress>>

vars == <<build, now, remote, lastSettings, orderProcessingStatus, orders,
          order_items, product_correlations, runs, tasks, resp, started, faults,
          lastRun, catalog, products, sales_data, jobs, reply, lastJob,
          productCache, cacheStatus, cacheRefreshInProgress>>

-----------------------------------------------------------------------------
(* Bounds of the model *)

MaxOrders == 2      \* orders the remote ever holds
MaxBusyOrders == 1  \* the same, where requests arrive at any time (Spec)
MaxCust == 1        \* customers 1..MaxCust
MaxClock == 2       \* hours the clock advances
MaxSyncs == 2       \* sync runs ever started
MaxFaults == 1      \* failing remote or store calls
MaxPagedOrders == 3 \* orders on the platform when a sync reads two pages
PageSize == 2       \* orders per page (limit=250 in the code, scaled down)
MaxProducts == 2    \* products the remote catalog ever holds
MaxVariantsPer == 2 \* variants per product
MaxBarcode == 1     \* barcodes 1..MaxBarcode
Oversold == 2       \* on-hand quantities from -Oversold ...
MaxStock == 16      \* ... to MaxStock
MaxVelocity == 3    \* daily_sales 0..MaxVelocity
TitleLen == 2       \* characters per title
MaxSales == 2       \* orders the sales sync ever sees
MaxQty == 2         \* units per line item
StockOnHand == 5    \* the inventory_quantity of a synced variant

(* Program constants *)

Hour == 1
Day == 24
HalfYear == 4380
Year == 8760
BlitzDefaultSince == 0
MaxPagesDefault == 100
MaxPagesFetchAll == 500
ScoreScale == 10000
WeekDays == 7
MonthDays == 30
QuarterDays == 90
YearDays == 365

Null == 0 - 1       \* JavaScript null / SQL NULL for numbers and dates
EmptyString == 0    \* '' in the barcode column

-----------------------------------------------------------------------------
(* Values *)

Customers == 1..MaxCust

\* The line items of a remote order, each line given by its variant; 0 stands
\* for a line without variant_id and product_id (a custom sale). Orders are
\* drawn from these lists: a custom sale alone and next to a catalog variant,
\* one variant, one variant on two lines, two variants in either order, and
\* one variant on two lines next to another.
LineItemLists ==
  {<<0>>, <<1>>, <<0, 1>>, <<1, 1>>, <<1, 2>>, <<2, 1>>, <<1, 1, 2>>}

\* variant_id as stored in the TEXT column.
NullVariant == <<"null", 0, 0>>
CatalogVariant(v) == <<"id", v, 0>>
CustomVariant(orderId, cartPosition) == <<"custom", orderId, cartPosition>>

\* The order of the TEXT column: a comparison with NULL is never true; digit
\* strings sort before "custom_..."; identifiers of one kind compare by value.
VariantLess(x, y) ==
  /\ x[1] # "null"
  /\ y[1] # "null"
  /\ \/ x[1] = "id" /\ y[1] = "custom"
     \/ /\ x[1] = y[1]
        /\ \/ x[2] < y[2]
           \/ x[2] = y[2] /\ x[3] < y[3]

NoReply == [kind |-> "none"]

NoJob == [outcome |-> "none", catalog |-> 0, orders |-> 0, rows |-> 0,
          again |-> FALSE]

NoResult == [ordersProcessed |-> Null, itemsProcessed |-> Null]

IdleRun ==
  [pc |-> "idle", kind |-> "none", startDate |-> Null, mode |-> "none",
   fetchAll |-> FALSE, pageInfo |-> Null, pageCount |-> 0, allOrders |-> <<>>,
   idx |-> 0, cartPosition |-> 0,
   customerOrderCounts |-> [c \in Customers |-> 0], isReturning |-> FALSE,
   ordersProcessed |-> 0, itemsProcessed |-> 0]

\* What the log keeps of a run that ended: its outcome, the start of its
\* window when that was the default window of a run without 'since', and the
\* line items and the number of remote orders at its end.
Ended(run, outcome) ==
  [outcome |-> outcome,
   defaultStart |-> IF run.mode = "default" THEN run.startDate ELSE Null,
   items |-> order_items,
   remote |-> Len(remote)]

\* The sequence s without its i-th element.
Remove(s, i) == SubSeq(s, 1, i - 1) \o SubSeq(s, i + 1, Len(s))

-----------------------------------------------------------------------------
(* The remote order resource *)

RECURSIVE TakeLowest(_, _)
TakeLowest(S, n) ==
  IF n = 0 \/ S = {} THEN <<>>
  ELSE LET m == CHOOSE x \in S : \A y \in S : x <= y
       IN <<m>> \o TakeLowest(S \ {m}, n - 1)

\* The orders a list request selects: created at or after `since`, and past
\* the cursor `after` (Null on the first request).
Matching(since, after) ==
  {i \in 1..Len(remote) : remote[i].created_at >= since /\ i > after}

PageOf(since, after) == TakeLowest(Matching(since, after), PageSize)

\* The response carries a rel="next" link when orders remain after the page.
HasNextLink(since, after) == Cardinality(Matching(since, after)) > PageSize

-----------------------------------------------------------------------------
(* Store statements *)

MaxOf(S) == CHOOSE x \in S : \A y \in S : y <= x

\* SELECT MAX(order_date) FROM orders
MaxOrderDate(tbl) == IF tbl = {} THEN Null ELSE MaxOf({r.order_date : r \in tbl})

\* server.js: INSERT INTO orders ... ON CONFLICT (order_id) DO UPDATE SET
\* total_price, is_returning_customer
UpsertOrderServer(tbl, row) ==
  IF \E r \in tbl : r.order_id = row.order_id
  THEN {IF r.order_id = row.order_id
        THEN [r EXCEPT !.is_returning_customer = row.is_returning_customer]
        ELSE r : r \in tbl}
  ELSE tbl \cup {row}

\* server.js: INSERT INTO order_items ... ON CONFLICT (order_id, variant_id)
\* DO UPDATE SET quantity, price, cart_position
UpsertItemServer(items, row) ==
  IF \E i \in DOMAIN items :
       items[i].order_id = row.order_id /\ items[i].variant_id = row.variant_id
  THEN [i \in DOMAIN items |->
          IF items[i].order_id = row.order_id /\ items[i].variant_id = row.variant_id
          THEN [items[i] EXCEPT !.cart_position = row.cart_position]
          ELSE items[i]]
  ELSE Append(items, row)

\* Mutant: the self-join with a.variant_id <> b.variant_id.
JoinedPairsEitherWay(items) ==
  {p \in (DOMAIN items) \X (DOMAIN items) :
     /\ items[p[1]].order_id = items[p[2]].order_id
     /\ items[p[1]].variant_id # NullVariant
     /\ items[p[2]].variant_id # NullVariant
     /\ items[p[1]].variant_id # items[p[2]].variant_id}

\* The rows of the self-join of order_items on order_id with a.variant_id <
\* b.variant_id, as pairs of row positions.
JoinedPairs(items) ==
  {p \in (DOMAIN items) \X (DOMAIN items) :
     /\ items[p[1]].order_id = items[p[2]].order_id
     /\ VariantLess(items[p[1]].variant_id, items[p[2]].variant_id)}

\* COUNT(*) of the group (a, b)
PairCount(items, a, b) ==
  Cardinality({p \in JoinedPairs(items) :
                 items[p[1]].variant_id = a /\ items[p[2]].variant_id = b})

\* SELECT COUNT(DISTINCT order_id) FROM order_items WHERE variant_id IN (a, b)
OrdersWithEither(items, a, b) ==
  Cardinality({items[i].order_id :
                 i \in {k \in DOMAIN items : items[k].variant_id \in {a, b}}})

\* n / d stored in DECIMAL(5,4): ten-thousandths, rounded half up.
ScoreOf(n, d) == (2 * n * ScoreScale + d) \div (2 * d)

PairGroups(items) ==
  {<<items[p[1]].variant_id, items[p[2]].variant_id>> : p \in JoinedPairs(items)}

\* server.js: the SELECT feeding INSERT INTO product_correlations
CorrelationSelectServer(items) ==
  {[variant_a_id |-> g[1], variant_b_id |-> g[2],
    co_purchase_count |-> PairCount(items, g[1], g[2]),
    correlation_score |->
      ScoreOf(PairCount(items, g[1], g[2]), OrdersWithEither(items, g[1], g[2]))] :
   g \in {h \in PairGroups(items) : PairCount(items, h[1], h[2]) > 1}}

\* ... ON CONFLICT (variant_a_id, variant_b_id) DO UPDATE SET
\* co_purchase_count, correlation_score
UpsertCorrelations(tbl, rows) ==
  {r \in tbl : ~ \E n \in rows : n.variant_a_id = r.variant_a_id
                              /\ n.variant_b_id = r.variant_b_id}
  \cup rows

-----------------------------------------------------------------------------
(* Initial state: a freshly started server, an empty store, no remote orders *)

Init ==
  /\ build \in {"server", "blitz"}
  /\ now = Year
  /\ remote = <<>>
  /\ lastSettings = FALSE
  /\ orderProcessingStatus =
       [isProcessing |-> FALSE, lastCompleted |-> Null, lastResult |-> NoResult]
  /\ orders = {}
  /\ order_items = <<>>
  /\ product_correlations = {}
  /\ runs = <<>>
  /\ tasks = <<>>
  /\ resp = "none"
  /\ started = 0
  /\ faults = 0
  /\ lastRun = [outcome |-> "none", defaultStart |-> Null, items |-> <<>>,
                remote |-> 0]
  /\ catalog = <<>>
  /\ products = <<>>
  /\ sales_data = {}
  /\ jobs = <<>>
  /\ reply = NoReply
  /\ lastJob = NoJob
  /\ productCache = <<>>
  /\ cacheStatus = "empty"
  /\ cacheRefreshInProgress = FALSE

-----------------------------------------------------------------------------
(* Environment *)

Tick ==
  /\ now < Year + MaxClock
  /\ now' = now + Hour
  /\ resp' = "none"
  /\ UNCHANGED pvars
  /\ UNCHANGED mvars
  /\ UNCHANGED <<build, remote, lastSettings, orderProcessingStatus, orders,
                 order_items, product_correlations, runs, tasks, started, faults,
                 lastRun>>

\* A customer (0: a guest checkout) places an order on the platform.
PlaceOrder(limit, customer, items) ==
  /\ Len(remote) < limit
  /\ remote' = Append(remote, [customer |-> customer, created_at |-> now,
                               line_items |-> items])
  /\ resp' = "none"
  /\ UNCHANGED pvars
  /\ UNCHANGED mvars
  /\ UNCHANGED <<build, now, lastSettings, orderProcessingStatus, orders,
                 order_items, product_correlations, runs, tasks, started, faults,
                 lastRun>>

\* An awaited remote or store call throws.
Fault == faults < MaxFaults /\ faults' = faults + 1

-----------------------------------------------------------------------------
(* src/server.js *)

\* Mutant: the page cap of a fetchAll run, whatever the options say.
MaxPagesAlwaysFetchAll(fetchAll) == MaxPagesFetchAll

MAX_PAGES(fetchAll) == IF fetchAll THEN MaxPagesFetchAll ELSE MaxPagesDefault

\* Mutant: the refreshOrders action without its isProcessing test.
RefreshNeverRefused == FALSE

\* The guard of the refreshOrders action.
RefreshRefused == orderProcessingStatus.isProcessing

\* The window importOrderData starts from.
ImportStartDate(created_at_min) ==
  IF created_at_min # Null THEN created_at_min ELSE now - HalfYear

\* POST /api/shopify, action refreshOrders: the handler up to its response.
\* importOrderData runs up to its first await, the request of the first page.
RefreshOrders(hasCredentials, created_at_min, fetchAll) ==
  /\ build = "server"
  /\ IF ~hasCredentials
     THEN /\ resp' = "400"
          /\ UNCHANGED <<orderProcessingStatus, runs, started>>
     ELSE IF RefreshRefused
     THEN /\ resp' = "processing"
          /\ UNCHANGED <<orderProcessingStatus, runs, started>>
     ELSE /\ started < MaxSyncs
          /\ started' = started + 1
          /\ orderProcessingStatus' =
               [orderProcessingStatus EXCEPT !.isProcessing = TRUE]
          /\ runs' = Append(runs,
               [IdleRun EXCEPT !.pc = "fetch", !.kind = "refreshOrders",
                               !.startDate = ImportStartDate(created_at_min),
                               !.mode = IF created_at_min # Null
                                        THEN "explicit" ELSE "default",
                               !.fetchAll = fetchAll])
          /\ resp' = "started"
  /\ UNCHANGED pvars
  /\ UNCHANGED mvars
  /\ UNCHANGED <<build, now, remote, lastSettings, orders, order_items,
                 product_correlations, tasks, faults, lastRun>>

\* POST /api/settings
StoreSettings(hasCredentials) ==
  /\ build = "server"
  /\ IF hasCredentials
     THEN lastSettings' = TRUE /\ resp' = "stored"
     ELSE lastSettings' = lastSettings /\ resp' = "400"
  /\ UNCHANGED pvars
  /\ UNCHANGED mvars
  /\ UNCHANGED <<build, now, remote, orderProcessingStatus, orders, order_items,
                 product_correlations, runs, tasks, started, faults, lastRun>>

\* Mutant: backgroundOrderSync without its test of lastSettings.
BackgroundOrderSyncUnguarded ==
  /\ started < MaxSyncs
  /\ started' = started + 1
  /\ runs' = Append(runs, [IdleRun EXCEPT !.pc = "lastdate",
                                          !.kind = "background"])

\* backgroundOrderSync up to its first await, the query of getLastOrderDate.
BackgroundOrderSync ==
  IF ~lastSettings
  THEN UNCHANGED <<runs, started>>
  ELSE /\ started < MaxSyncs
       /\ started' = started + 1
       /\ runs' = Append(runs, [IdleRun EXCEPT !.pc = "lastdate",
                                               !.kind = "background"])

\* The callbacks startBackgroundSync schedules (after 30 s, then every 5 min).
TimerFires ==
  /\ build = "server"
  /\ BackgroundOrderSync
  /\ resp' = "none"
  /\ UNCHANGED pvars
  /\ UNCHANGED mvars
  /\ UNCHANGED <<build, now, remote, lastSettings, orderProcessingStatus, orders,
                 order_items, product_correlations, tasks, faults, lastRun>>

\* POST /api/orders/sync-now
SyncNow ==
  /\ build = "server"
  /\ BackgroundOrderSync
  /\ resp' = "triggered"
  /\ UNCHANGED pvars
  /\ UNCHANGED mvars
  /\ UNCHANGED <<build, now, remote, lastSettings, orderProcessingStatus, orders,
                 order_items, product_correlations, tasks, faults, lastRun>>

\* getLastOrderDate answers, and backgroundOrderSync calls importOrderData,
\* which requests the first page.
GetLastOrderDate(i) ==
  /\ i \in DOMAIN runs
  /\ runs[i].pc = "lastdate"
  /\ runs[i].kind = "background"
  /\ \/ /\ Fault
        /\ runs' = [runs EXCEPT ![i].pc = "fetch", ![i].startDate = now - Day,
                                ![i].mode = "fallback"]
     \/ /\ UNCHANGED faults
        /\ LET lastDate == MaxOrderDate(orders)
           IN runs' = [runs EXCEPT
                 ![i].pc = "fetch",
                 ![i].startDate = IF lastDate # Null THEN lastDate - Hour
                                  ELSE now - Year,
                 ![i].mode = IF lastDate # Null THEN "incremental" ELSE "default"]
  /\ resp' = "none"
  /\ UNCHANGED pvars
  /\ UNCHANGED mvars
  /\ UNCHANGED <<build, now, remote, lastSettings, orderProcessingStatus, orders,
                 order_items, product_correlations, tasks, started, lastRun>>

\* Mutant: the catch callback of the refreshOrders action without its reset
\* of isProcessing.
SettleServerNoReset(i, outcome, ordersProcessed, itemsProcessed) ==
  /\ runs' = Remove(runs, i)
  /\ lastRun' = Ended(runs[i], outcome)
  /\ orderProcessingStatus' =
       IF runs[i].kind # "refreshOrders" THEN orderProcessingStatus
       ELSE IF outcome = "ok"
       THEN [isProcessing |-> FALSE, lastCompleted |-> now,
             lastResult |-> [ordersProcessed |-> ordersProcessed,
                             itemsProcessed |-> itemsProcessed]]
       ELSE orderProcessingStatus

\* The promise of importOrderData settles: the then/catch callbacks of the
\* refreshOrders action run; backgroundOrderSync only logs.
SettleServer(i, outcome, ordersProcessed, itemsProcessed) ==
  /\ runs' = Remove(runs, i)
  /\ lastRun' = Ended(runs[i], outcome)
  /\ orderProcessingStatus' =
       IF runs[i].kind # "refreshOrders" THEN orderProcessingStatus
       ELSE IF outcome = "ok"
       THEN [isProcessing |-> FALSE, lastCompleted |-> now,
             lastResult |-> [ordersProcessed |-> ordersProcessed,
                             itemsProcessed |-> itemsProcessed]]
       ELSE [orderProcessingStatus EXCEPT !.isProcessing = FALSE]

\* The order loop moves to the next order, or leaves the loop.
NextOrder(run, after) ==
  IF run.idx < Len(run.allOrders)
  THEN [run EXCEPT !.pc = "order", !.idx = @ + 1]
  ELSE [run EXCEPT !.pc = after]

\* One page request of importOrderData answers.
FetchPage(i) ==
  /\ i \in DOMAIN runs
  /\ runs[i].pc = "fetch"
  /\ runs[i].kind \in {"refreshOrders", "background"}
  /\ \/ /\ Fault
        /\ SettleServer(i, "failed", 0, 0)
     \/ /\ UNCHANGED faults
        /\ LET run == runs[i]
               page == PageOf(run.startDate, run.pageInfo)
               all == run.allOrders \o page
               count == run.pageCount + 1
               more == HasNextLink(run.startDate, run.pageInfo)
           IN IF more /\ count < MAX_PAGES(run.fetchAll)
              THEN /\ runs' = [runs EXCEPT ![i].allOrders = all,
                                           ![i].pageCount = count,
                                           ![i].pageInfo = page[Len(page)]]
                   /\ UNCHANGED <<orderProcessingStatus, lastRun>>
              ELSE IF all = <<>>
              THEN SettleServer(i, "ok", 0, 0)
              ELSE /\ runs' = [runs EXCEPT ![i].allOrders = all,
                                           ![i].pageCount = count,
                                           ![i].pc = "order", ![i].idx = 1]
                   /\ UNCHANGED <<orderProcessingStatus, lastRun>>
  /\ resp' = "none"
  /\ UNCHANGED pvars
  /\ UNCHANGED mvars
  /\ UNCHANGED <<build, now, remote, lastSettings, orders, order_items,
                 product_correlations, tasks, started>>

\* One page request of importOrderData is answered by a platform that
\* announces a next page with every response, also after its last order.
FetchEndless(i) ==
  /\ i \in DOMAIN runs
  /\ runs[i].pc = "fetch"
  /\ runs[i].kind \in {"refreshOrders", "background"}
  /\ UNCHANGED faults
  /\ LET run == runs[i]
         page == PageOf(run.startDate, run.pageInfo)
         all == run.allOrders \o page
         count == run.pageCount + 1
         cursor == IF page # <<>> THEN page[Len(page)]
                   ELSE IF run.pageInfo = Null THEN 0 ELSE run.pageInfo
     IN IF count < MAX_PAGES(run.fetchAll)
        THEN /\ runs' = [runs EXCEPT ![i].allOrders = all,
                                     ![i].pageCount = count,
                                     ![i].pageInfo = cursor]
             /\ UNCHANGED <<orderProcessingStatus, lastRun>>
        ELSE IF all = <<>>
        THEN SettleServer(i, "ok", 0, 0)
        ELSE /\ runs' = [runs EXCEPT ![i].allOrders = all,
                                     ![i].pageCount = count,
                                     ![i].pc = "order", ![i].idx = 1]
             /\ UNCHANGED <<orderProcessingStatus, lastRun>>
  /\ resp' = "none"
  /\ UNCHANGED pvars
  /\ UNCHANGED mvars
  /\ UNCHANGED <<build, now, remote, lastSettings, orders, order_items,
                 product_correlations, tasks, started>>

\* The INSERT INTO orders of the current order answers.
UpsertOrder(i) ==
  /\ i \in DOMAIN runs
  /\ runs[i].pc = "order"
  /\ runs[i].kind \in {"refreshOrders", "background"}
  /\ LET run == runs[i]
         id == run.allOrders[run.idx]
         customerId == remote[id].customer
         counts == IF customerId # 0
                   THEN [run.customerOrderCounts EXCEPT ![customerId] = @ + 1]
                   ELSE run.customerOrderCounts
         isReturning == IF customerId # 0 THEN counts[customerId] > 1 ELSE FALSE
         counted == [run EXCEPT !.customerOrderCounts = counts,
                                !.isReturning = isReturning]
     IN \/ /\ Fault
           /\ runs' = [runs EXCEPT ![i] = NextOrder(counted, "stats")]
           /\ UNCHANGED orders
        \/ /\ UNCHANGED faults
           /\ orders' = UpsertOrderServer(orders,
                [order_id |-> id,
                 customer_id |-> IF customerId # 0 THEN customerId ELSE Null,
                 order_date |-> remote[id].created_at,
                 is_returning_customer |-> isReturning])
           /\ runs' = [runs EXCEPT ![i] = [counted EXCEPT !.pc = "item",
                                                          !.cartPosition = 1]]
  /\ resp' = "none"
  /\ UNCHANGED pvars
  /\ UNCHANGED mvars
  /\ UNCHANGED <<build, now, remote, lastSettings, orderProcessingStatus,
                 order_items, product_correlations, tasks, started, lastRun>>

\* The identifier importOrderData stores a line item under.
ItemVariantServer(id, cartPosition, variant) ==
  IF variant = 0 THEN CustomVariant(id, cartPosition) ELSE CatalogVariant(variant)

\* The INSERT INTO order_items of the current line item answers.
UpsertItem(i) ==
  /\ i \in DOMAIN runs
  /\ runs[i].pc = "item"
  /\ runs[i].kind \in {"refreshOrders", "background"}
  /\ LET run == runs[i]
         id == run.allOrders[run.idx]
         k == run.cartPosition
         after(r) == IF k = Len(remote[id].line_items)
                     THEN NextOrder([r EXCEPT !.ordersProcessed = @ + 1], "stats")
                     ELSE [r EXCEPT !.cartPosition = k + 1]
     IN \/ /\ Fault
           /\ runs' = [runs EXCEPT ![i] = after(run)]
           /\ UNCHANGED order_items
        \/ /\ UNCHANGED faults
           /\ order_items' = UpsertItemServer(order_items,
                [order_id |-> id,
                 variant_id |-> ItemVariantServer(id, k, remote[id].line_items[k]),
                 cart_position |-> k,
                 customer_is_returning |-> run.isReturning])
           /\ runs' = [runs EXCEPT
                 ![i] = after([run EXCEPT !.itemsProcessed = @ + 1])]
  /\ resp' = "none"
  /\ UNCHANGED pvars
  /\ UNCHANGED mvars
  /\ UNCHANGED <<build, now, remote, lastSettings, orderProcessingStatus, orders,
                 product_correlations, tasks, started, lastRun>>

\* The INSERT INTO customer_stats answers (the table is read by no operation
\* modelled here and is not represented).
CustomerStats(i) ==
  /\ i \in DOMAIN runs
  /\ runs[i].pc = "stats"
  /\ \/ /\ Fault
        /\ SettleServer(i, "failed", 0, 0)
     \/ /\ UNCHANGED <<faults, orderProcessingStatus, lastRun>>
        /\ runs' = [runs EXCEPT ![i].pc = "corr"]
  /\ resp' = "none"
  /\ UNCHANGED pvars
  /\ UNCHANGED mvars
  /\ UNCHANGED <<build, now, remote, lastSettings, orders, order_items,
                 product_correlations, tasks, started>>

\* The INSERT INTO product_correlations ... SELECT answers.
Correlations(i) ==
  /\ i \in DOMAIN runs
  /\ runs[i].pc = "corr"
  /\ \/ /\ Fault
        /\ SettleServer(i, "failed", 0, 0)
        /\ UNCHANGED product_correlations
     \/ /\ UNCHANGED <<faults, orderProcessingStatus, lastRun>>
        /\ product_correlations' =
             UpsertCorrelations(product_correlations,
                                CorrelationSelectServer(order_items))
        /\ runs' = [runs EXCEPT ![i].pc = "analytics"]
  /\ resp' = "none"
  /\ UNCHANGED pvars
  /\ UNCHANGED mvars
  /\ UNCHANGED <<build, now, remote, lastSettings, orders, order_items, tasks,
                 started>>

\* The analytics SELECT answers and importOrderData returns its result.
Analytics(i) ==
  /\ i \in DOMAIN runs
  /\ runs[i].pc = "analytics"
  /\ \/ /\ Fault
        /\ SettleServer(i, "failed", 0, 0)
     \/ /\ UNCHANGED faults
        /\ SettleServer(i, "ok", runs[i].ordersProcessed, runs[i].itemsProcessed)
  /\ resp' = "none"
  /\ UNCHANGED pvars
  /\ UNCHANGED mvars
  /\ UNCHANGED <<build, now, remote, lastSettings, orders, order_items,
                 product_correlations, tasks, started>>

-----------------------------------------------------------------------------
(* src/unnamed/part_001 *)

\* INSERT INTO orders ... ON CONFLICT (order_id) DO UPDATE SET total_price,
\* updated_at
UpsertOrderBlitz(tbl, row) ==
  IF \E r \in tbl : r.order_id = row.order_id THEN tbl ELSE tbl \cup {row}

\* INSERT INTO order_items ... ON CONFLICT (order_id, variant_id, cart_position)
\* DO UPDATE SET quantity, price. The constraint is UNIQUE(order_id, variant_id,
\* cart_position): rows whose variant_id is NULL never conflict.
UpsertItemBlitz(items, row) ==
  IF /\ row.variant_id # NullVariant
     /\ \E i \in DOMAIN items :
          /\ items[i].order_id = row.order_id
          /\ items[i].variant_id = row.variant_id
          /\ items[i].cart_position = row.cart_position
  THEN items
  ELSE Append(items, row)

\* UPDATE orders SET is_returning_customer = TRUE WHERE customer_id IN (...
\* GROUP BY customer_id HAVING COUNT(*) > 1)
MarkReturning(tbl) ==
  LET returning ==
        {c \in Customers : Cardinality({r \in tbl : r.customer_id = c}) > 1}
  IN {IF r.customer_id \in returning
      THEN [r EXCEPT !.is_returning_customer = TRUE] ELSE r : r \in tbl}

\* The SELECT of calculateCorrelations
CorrelationSelectBlitz(items) ==
  {[variant_a_id |-> g[1], variant_b_id |-> g[2],
    co_purchase_count |-> PairCount(items, g[1], g[2])] :
   g \in {h \in PairGroups(items) : PairCount(items, h[1], h[2]) >= 2}}

\* INSERT INTO product_correlations (variant_a_id, variant_b_id,
\* co_purchase_count) ... ON CONFLICT DO UPDATE SET co_purchase_count;
\* correlation_score keeps its column default 0.
InsertCorrelationBlitz(tbl, row) ==
  IF \E r \in tbl : r.variant_a_id = row.variant_a_id
                 /\ r.variant_b_id = row.variant_b_id
  THEN {IF r.variant_a_id = row.variant_a_id /\ r.variant_b_id = row.variant_b_id
        THEN [r EXCEPT !.co_purchase_count = row.co_purchase_count]
        ELSE r : r \in tbl}
  ELSE tbl \cup {[variant_a_id |-> row.variant_a_id,
                  variant_b_id |-> row.variant_b_id,
                  co_purchase_count |-> row.co_purchase_count,
                  correlation_score |-> 0]}

\* The identifier the handler stores a line item under.
ItemVariantBlitz(variant) ==
  IF variant = 0 THEN NullVariant ELSE CatalogVariant(variant)

\* The guard of POST /api/order-blitz.
BlitzRefused == orderProcessingStatus.isProcessing

\* POST /api/order-blitz up to its first await, the MAX(order_date) query.
OrderBlitz(hasCredentials) ==
  /\ build = "blitz"
  /\ IF ~hasCredentials
     THEN /\ resp' = "400"
          /\ UNCHANGED <<orderProcessingStatus, runs, started>>
     ELSE IF BlitzRefused
     THEN /\ resp' = "processing"
          /\ UNCHANGED <<orderProcessingStatus, runs, started>>
     ELSE /\ started < MaxSyncs
          /\ started' = started + 1
          /\ orderProcessingStatus' =
               [orderProcessingStatus EXCEPT !.isProcessing = TRUE]
          /\ runs' = Append(runs, [IdleRun EXCEPT !.pc = "lastdate",
                                                  !.kind = "blitz"])
          /\ resp' = "none"
  /\ UNCHANGED pvars
  /\ UNCHANGED mvars
  /\ UNCHANGED <<build, now, remote, lastSettings, orders, order_items,
                 product_correlations, tasks, faults, lastRun>>

\* Mutant: the catch of POST /api/order-blitz also stamps the completion.
SettleBlitzStamped(i, outcome, ordersProcessed, itemsProcessed) ==
  /\ runs' = Remove(runs, i)
  /\ lastRun' = Ended(runs[i], outcome)
  /\ orderProcessingStatus' =
       [isProcessing |-> FALSE, lastCompleted |-> now,
        lastResult |-> [ordersProcessed |-> ordersProcessed,
                        itemsProcessed |-> itemsProcessed]]
  /\ resp' = IF outcome = "ok" THEN "ok" ELSE "500"

\* The handler ends: by its response after the last step (or the early return
\* for an empty fetch), or in its catch block.
SettleBlitz(i, outcome, ordersProcessed, itemsProcessed) ==
  /\ runs' = Remove(runs, i)
  /\ lastRun' = Ended(runs[i], outcome)
  /\ orderProcessingStatus' =
       IF outcome = "ok"
       THEN [isProcessing |-> FALSE, lastCompleted |-> now,
             lastResult |-> [ordersProcessed |-> ordersProcessed,
                             itemsProcessed |-> itemsProcessed]]
       ELSE [orderProcessingStatus EXCEPT !.isProcessing = FALSE]
  /\ resp' = IF outcome = "ok" THEN "ok" ELSE "500"

\* The MAX(order_date) query answers and the handler requests the orders.
BlitzLastOrder(i) ==
  /\ i \in DOMAIN runs
  /\ runs[i].pc = "lastdate"
  /\ runs[i].kind = "blitz"
  /\ \/ /\ Fault
        /\ SettleBlitz(i, "failed", 0, 0)
     \/ /\ UNCHANGED <<faults, orderProcessingStatus, lastRun>>
        /\ LET lastOrderDate == MaxOrderDate(orders)
           IN runs' = [runs EXCEPT
                 ![i].pc = "fetch",
                 ![i].startDate = IF lastOrderDate # Null THEN lastOrderDate
                                  ELSE BlitzDefaultSince,
                 ![i].mode = IF lastOrderDate # Null
                             THEN "incremental" ELSE "default"]
        /\ resp' = "none"
  /\ UNCHANGED pvars
  /\ UNCHANGED mvars
  /\ UNCHANGED <<build, now, remote, lastSettings, orders, order_items,
                 product_correlations, tasks, started>>

\* The one request of the handler answers: a single page, no pagination.
BlitzFetch(i) ==
  /\ i \in DOMAIN runs
  /\ runs[i].pc = "fetch"
  /\ runs[i].kind = "blitz"
  /\ \/ /\ Fault
        /\ SettleBlitz(i, "failed", 0, 0)
     \/ /\ UNCHANGED faults
        /\ LET page == PageOf(runs[i].startDate, Null)
           IN IF page = <<>>
              THEN SettleBlitz(i, "ok", 0, 0)
              ELSE /\ runs' = [runs EXCEPT ![i].allOrders = page,
                                           ![i].pc = "order", ![i].idx = 1]
                   /\ resp' = "none"
                   /\ UNCHANGED <<orderProcessingStatus, lastRun>>
  /\ UNCHANGED pvars
  /\ UNCHANGED mvars
  /\ UNCHANGED <<build, now, remote, lastSettings, orders, order_items,
                 product_correlations, tasks, started>>

\* The INSERT INTO orders of the current order answers. (The 100 ms pause
\* after each batch of 50 orders touches no state and is not a step.)
BlitzUpsertOrder(i) ==
  /\ i \in DOMAIN runs
  /\ runs[i].pc = "order"
  /\ runs[i].kind = "blitz"
  /\ LET run == runs[i]
         id == run.allOrders[run.idx]
         customerId == remote[id].customer
     IN \/ /\ Fault
           /\ runs' = [runs EXCEPT ![i] = NextOrder(run, "returning")]
           /\ UNCHANGED orders
        \/ /\ UNCHANGED faults
           /\ orders' = UpsertOrderBlitz(orders,
                [order_id |-> id,
                 customer_id |-> IF customerId # 0 THEN customerId ELSE Null,
                 order_date |-> remote[id].created_at,
                 is_returning_customer |-> FALSE])
           /\ runs' = [runs EXCEPT ![i] = [run EXCEPT !.pc = "item",
                                                      !.cartPosition = 0,
                                                      !.ordersProcessed = @ + 1]]
  /\ resp' = "none"
  /\ UNCHANGED pvars
  /\ UNCHANGED mvars
  /\ UNCHANGED <<build, now, remote, lastSettings, orderProcessingStatus,
                 order_items, product_correlations, tasks, started, lastRun>>

\* The INSERT INTO order_items of the current line item answers. A failure
\* is caught by the try block of the order and ends the order.
BlitzUpsertItem(i) ==
  /\ i \in DOMAIN runs
  /\ runs[i].pc = "item"
  /\ runs[i].kind = "blitz"
  /\ LET run == runs[i]
         id == run.allOrders[run.idx]
         position == run.cartPosition
     IN \/ /\ Fault
           /\ runs' = [runs EXCEPT ![i] = NextOrder(run, "returning")]
           /\ UNCHANGED order_items
        \/ /\ UNCHANGED faults
           /\ order_items' = UpsertItemBlitz(order_items,
                [order_id |-> id,
                 variant_id |-> ItemVariantBlitz(remote[id].line_items[position + 1]),
                 cart_position |-> position,
                 customer_is_returning |-> FALSE])
           /\ runs' = [runs EXCEPT ![i] =
                 IF position + 1 = Len(remote[id].line_items)
                 THEN NextOrder([run EXCEPT !.itemsProcessed = @ + 1], "returning")
                 ELSE [run EXCEPT !.itemsProcessed = @ + 1,
                                  !.cartPosition = position + 1]]
  /\ resp' = "none"
  /\ UNCHANGED pvars
  /\ UNCHANGED mvars
  /\ UNCHANGED <<build, now, remote, lastSettings, orderProcessingStatus, orders,
                 product_correlations, tasks, started, lastRun>>

\* The UPDATE marking returning customers answers; the handler starts
\* calculateCorrelations without awaiting it, resets the flag and responds.
BlitzMarkReturning(i) ==
  /\ i \in DOMAIN runs
  /\ runs[i].pc = "returning"
  /\ \/ /\ Fault
        /\ SettleBlitz(i, "failed", 0, 0)
        /\ UNCHANGED <<orders, tasks>>
     \/ /\ UNCHANGED faults
        /\ orders' = MarkReturning(orders)
        /\ tasks' = Append(tasks, [pc |-> "delete", rows |-> {}])
        /\ SettleBlitz(i, "ok", runs[i].ordersProcessed, runs[i].itemsProcessed)
  /\ UNCHANGED pvars
  /\ UNCHANGED mvars
  /\ UNCHANGED <<build, now, remote, lastSettings, order_items,
                 product_correlations, started>>

\* calculateCorrelations: DELETE FROM product_correlations answers.
CorrDelete(t) ==
  /\ t \in DOMAIN tasks
  /\ tasks[t].pc = "delete"
  /\ product_correlations' = {}
  /\ tasks' = [tasks EXCEPT ![t].pc = "select"]
  /\ resp' = "none"
  /\ UNCHANGED pvars
  /\ UNCHANGED mvars
  /\ UNCHANGED <<build, now, remote, lastSettings, orderProcessingStatus, orders,
                 order_items, runs, started, faults, lastRun>>

\* calculateCorrelations: the SELECT answers.
CorrSelect(t) ==
  /\ t \in DOMAIN tasks
  /\ tasks[t].pc = "select"
  /\ LET rows == CorrelationSelectBlitz(order_items)
     IN tasks' = IF rows = {} THEN Remove(tasks, t)
                 ELSE [tasks EXCEPT ![t] = [pc |-> "insert", rows |-> rows]]
  /\ resp' = "none"
  /\ UNCHANGED pvars
  /\ UNCHANGED mvars
  /\ UNCHANGED <<build, now, remote, lastSettings, orderProcessingStatus, orders,
                 order_items, product_correlations, runs, started, faults,
                 lastRun>>

\* calculateCorrelations: the INSERT of one row of the result answers.
CorrInsert(t) ==
  /\ t \in DOMAIN tasks
  /\ tasks[t].pc = "insert"
  /\ \E row \in tasks[t].rows :
       /\ product_correlations' = InsertCorrelationBlitz(product_correlations, row)
       /\ tasks' = IF tasks[t].rows = {row} THEN Remove(tasks, t)
                   ELSE [tasks EXCEPT ![t].rows = @ \ {row}]
  /\ resp' = "none"
  /\ UNCHANGED pvars
  /\ UNCHANGED mvars
  /\ UNCHANGED <<build, now, remote, lastSettings, orderProcessingStatus, orders,
                 order_items, runs, started, faults, lastRun>>

-----------------------------------------------------------------------------
(* The remote catalog, and the orders as the sales sync reads them *)

\* A title as the sequence of the classes of its characters: "U" a character
\* that upper-casing leaves alone (an upper-case letter, a digit, a space),
\* "l" a lower-case letter a-z, "x" a lower-case letter outside a-z (such as
\* e-acute), and "X" the upper-case form of the latter.
Chars == {"U", "l", "x"}
Titles == [1..TitleLen -> Chars]

\* String.prototype.toUpperCase, character by character.
UpperChar(c) == IF c = "l" THEN "U" ELSE IF c = "x" THEN "X" ELSE c
ToUpperCase(title) == [k \in DOMAIN title |-> UpperChar(title[k])]

\* The identifier of the k-th variant of the p-th product: products 1 and 2
\* own the variants orders refer to.
VariantId(p, k) == (p - 1) * MaxVariantsPer + k

\* The merchant adds a product to the catalog; barcode 0 stands for a variant
\* without barcode.
AddProduct(limit, title, variants) ==
  /\ Len(catalog) < limit
  /\ catalog' = Append(catalog, [title |-> title, variants |-> variants])
  /\ resp' = "none"
  /\ UNCHANGED <<products, sales_data, jobs, reply, lastJob>>
  /\ UNCHANGED mvars
  /\ UNCHANGED <<build, now, remote, lastSettings, orderProcessingStatus, orders,
                 order_items, product_correlations, runs, tasks, started, faults,
                 lastRun>>

\* An order created `age` hours ago appears on the platform; each of its
\* lines sells `quantity` units.
PlaceSale(limit, age, items, quantity) ==
  /\ Len(remote) < limit
  /\ remote' = Append(remote, [customer |-> 0, created_at |-> now - age,
                               line_items |-> items, quantity |-> quantity])
  /\ resp' = "none"
  /\ UNCHANGED pvars
  /\ UNCHANGED mvars
  /\ UNCHANGED <<build, now, lastSettings, orderProcessingStatus, orders,
                 order_items, product_correlations, runs, tasks, started, faults,
                 lastRun>>

\* One page of products.json past the cursor `after` (Null: the first page).
ProductsAfter(after) == {p \in 1..Len(catalog) : p > after}
ProductPage(after) == TakeLowest(ProductsAfter(after), PageSize)
ProductsNextLink(after) == Cardinality(ProductsAfter(after)) > PageSize

\* The variants of the products ps, in order, as <<product, variant index>>.
RECURSIVE VariantsOf(_)
VariantsOf(ps) ==
  IF ps = <<>> THEN <<>>
  ELSE [k \in 1..Len(catalog[Head(ps)].variants) |-> <<Head(ps), k>>]
       \o VariantsOf(Tail(ps))

\* What the catalog side leaves alone: the state of the order sync, and the
\* deployment and its surroundings.
orderSide == <<orderProcessingStatus, orders, order_items, product_correlations,
               runs, tasks, lastRun>>
surroundings == <<build, now, remote, catalog, lastSettings>>

IdleJob ==
  [pc |-> "idle", kind |-> "none", pageInfo |-> Null, allProducts |-> <<>>,
   queue |-> <<>>, stored |-> 0, skipped |-> 0, since |-> Null,
   allOrders |-> <<>>, salesQueue |-> <<>>, updated |-> 0, total |-> 0,
   hasNextPage |-> TRUE]

\* The line items of the orders ids that carry a variant_id, in order.
RECURSIVE SaleLines(_)
SaleLines(ids) ==
  IF ids = <<>> THEN <<>>
  ELSE LET o == remote[Head(ids)]
           own == [k \in DOMAIN o.line_items |->
                     [variant_id |-> o.line_items[k], quantity |-> o.quantity,
                      created_at |-> o.created_at]]
       IN SelectSeq(own, LAMBDA l : l.variant_id # 0) \o SaleLines(Tail(ids))

\* The position of variant v in the sequence of sales records (0: absent).
SalesIndex(acc, v) ==
  IF \E k \in DOMAIN acc : acc[k].variant_id = v
  THEN CHOOSE k \in DOMAIN acc : acc[k].variant_id = v
  ELSE 0

\* INSERT INTO sales_data ... ON CONFLICT (variant_id) DO UPDATE SET all six
\* counters
UpsertSales(tbl, row) == {r \in tbl : r.variant_id # row.variant_id} \cup {row}

-----------------------------------------------------------------------------
(* src/server.js: refreshInventory and autoRefreshInventory *)

\* Mutant: the INSERT without its ON CONFLICT clause, on a table without key.
InsertProductServer(tbl, p, k) ==
  Append(tbl, [variant_id |-> VariantId(p, k), product_id |-> p,
               title |-> catalog[p].title,
               barcode |-> catalog[p].variants[k].barcode,
               inventory_quantity |-> catalog[p].variants[k].inventory_quantity])

\* fetchAllProducts: INSERT INTO products ... ON CONFLICT (variant_id) DO
\* UPDATE; a missing barcode is stored as ''.
UpsertProductServer(tbl, p, k) ==
  LET variant == catalog[p].variants[k]
      row == [variant_id |-> VariantId(p, k), product_id |-> p,
              title |-> catalog[p].title,
              barcode |-> IF variant.barcode # 0 THEN variant.barcode
                          ELSE EmptyString,
              inventory_quantity |-> variant.inventory_quantity]
  IN IF \E n \in DOMAIN tbl : tbl[n].variant_id = row.variant_id
     THEN [n \in DOMAIN tbl |->
             IF tbl[n].variant_id = row.variant_id THEN row ELSE tbl[n]]
     ELSE Append(tbl, row)

\* importSalesData (server.js): one line item added to salesByVariant. The
\* first line item of a variant creates its record.
AddSaleServer(acc, line, at) ==
  LET daysDiff == (at - line.created_at) \div Day
      quantity == IF line.quantity # 0 THEN line.quantity ELSE 1
      k == SalesIndex(acc, line.variant_id)
  IN IF k = 0
     THEN Append(acc, [variant_id |-> line.variant_id, daily_sales |-> 0,
                       weekly_sales |-> 0, monthly_sales |-> 0,
                       quarterly_sales |-> 0, yearly_sales |-> 0,
                       all_time_sales |-> quantity])
     ELSE [acc EXCEPT
             ![k].all_time_sales = @ + quantity,
             ![k].daily_sales = IF daysDiff <= 1 THEN @ + quantity ELSE @,
             ![k].weekly_sales = IF daysDiff <= WeekDays THEN @ + quantity ELSE @,
             ![k].monthly_sales = IF daysDiff <= MonthDays THEN @ + quantity ELSE @,
             ![k].quarterly_sales =
               IF daysDiff <= QuarterDays THEN @ + quantity ELSE @,
             ![k].yearly_sales = IF daysDiff <= YearDays THEN @ + quantity ELSE @]

RECURSIVE SalesByVariantServer(_, _, _)
SalesByVariantServer(acc, lines, at) ==
  IF lines = <<>> THEN acc
  ELSE SalesByVariantServer(AddSaleServer(acc, Head(lines), at), Tail(lines), at)

\* INSERT INTO sales_data ... SELECT variant_id, 0, ... FROM products WHERE NOT
\* EXISTS (a sales_data row of the variant)
ZeroSalesFill(tbl, prods) ==
  tbl \cup {[variant_id |-> v, daily_sales |-> 0, weekly_sales |-> 0,
             monthly_sales |-> 0, quarterly_sales |-> 0, yearly_sales |-> 0,
             all_time_sales |-> 0] :
            v \in {prods[n].variant_id : n \in DOMAIN prods}
                   \ {r.variant_id : r \in tbl}}

\* What the log keeps of a sync that ended: its outcome, the sizes of the
\* remote catalog and order list, the number of products rows it left, and
\* whether it followed a successful sync of the same catalog and orders.
Logged(outcome) ==
  [outcome |-> outcome, catalog |-> Len(catalog), orders |-> Len(remote),
   rows |-> Len(products),
   again |-> /\ lastJob.outcome = "ok"
             /\ lastJob.catalog = Len(catalog)
             /\ lastJob.orders = Len(remote)]

\* The handler of the job ends: the refreshInventory action responds (500
\* from the catch block of POST /api/shopify); autoRefreshInventory only logs.
EndRefresh(j, status, body) ==
  /\ jobs' = Remove(jobs, j)
  /\ resp' = IF jobs[j].kind = "refreshInventory" THEN status ELSE "none"
  /\ reply' = IF jobs[j].kind = "refreshInventory" THEN body ELSE NoReply
  /\ lastJob' = Logged(IF status = "ok" THEN "ok" ELSE "failed")

\* POST /api/shopify, action refreshInventory, up to the first await of
\* fetchAllProducts.
RefreshInventory(hasCredentials) ==
  /\ build = "server"
  /\ IF ~hasCredentials
     THEN /\ resp' = "400"
          /\ UNCHANGED <<jobs, started>>
     ELSE /\ started < MaxSyncs
          /\ started' = started + 1
          /\ jobs' = Append(jobs, [IdleJob EXCEPT !.pc = "products",
                                                  !.kind = "refreshInventory"])
          /\ resp' = "none"
  /\ reply' = NoReply
  /\ UNCHANGED lastJob
  /\ UNCHANGED <<products, sales_data, faults>>
  /\ UNCHANGED orderSide
  /\ UNCHANGED mvars
  /\ UNCHANGED surroundings

\* The hourly timer calls autoRefreshInventory.
AutoRefreshInventory ==
  /\ build = "server"
  /\ IF ~lastSettings
     THEN UNCHANGED <<jobs, started>>
     ELSE /\ started < MaxSyncs
          /\ started' = started + 1
          /\ jobs' = Append(jobs, [IdleJob EXCEPT !.pc = "products",
                                                  !.kind = "autoRefresh"])
  /\ resp' = "none"
  /\ reply' = NoReply
  /\ UNCHANGED lastJob
  /\ UNCHANGED <<products, sales_data, faults>>
  /\ UNCHANGED orderSide
  /\ UNCHANGED mvars
  /\ UNCHANGED surroundings

\* importSalesData starts: it reads the clock and requests the first page.
StartSales(job) == [job EXCEPT !.pc = "sales", !.since = now - Year,
                               !.pageInfo = Null]

\* fetchAllProducts returned: refreshInventory goes on with
\* fetchInventoryCosts, autoRefreshInventory with importSalesData.
AfterProducts(job) ==
  IF job.kind = "refreshInventory" THEN [job EXCEPT !.pc = "costs"]
  ELSE StartSales(job)

\* fetchAllProducts: one page of products.json answers.
FetchProducts(j) ==
  /\ j \in DOMAIN jobs
  /\ jobs[j].pc = "products"
  /\ jobs[j].kind \in {"refreshInventory", "autoRefresh"}
  /\ \/ /\ Fault
        /\ EndRefresh(j, "500", NoReply)
     \/ /\ UNCHANGED faults
        /\ LET job == jobs[j]
               page == ProductPage(job.pageInfo)
               all == job.allProducts \o page
           IN jobs' = [jobs EXCEPT ![j] =
                IF ProductsNextLink(job.pageInfo)
                THEN [job EXCEPT !.allProducts = all, !.pageInfo = page[Len(page)]]
                ELSE IF VariantsOf(all) = <<>>
                THEN AfterProducts([job EXCEPT !.allProducts = all])
                ELSE [job EXCEPT !.allProducts = all, !.pc = "store",
                                 !.queue = VariantsOf(all)]]
        /\ resp' = "none"
        /\ reply' = NoReply
        /\ UNCHANGED lastJob
  /\ UNCHANGED <<products, sales_data, started>>
  /\ UNCHANGED orderSide
  /\ UNCHANGED mvars
  /\ UNCHANGED surroundings

\* fetchAllProducts: the INSERT of one variant answers; an error is logged
\* and the variant skipped.
StoreVariant(j) ==
  /\ j \in DOMAIN jobs
  /\ jobs[j].pc = "store"
  /\ jobs[j].kind \in {"refreshInventory", "autoRefresh"}
  /\ LET job == jobs[j]
         v == Head(job.queue)
         after(r) == IF Tail(job.queue) = <<>> THEN AfterProducts(r)
                     ELSE [r EXCEPT !.queue = Tail(job.queue)]
     IN \/ /\ Fault
           /\ jobs' = [jobs EXCEPT ![j] = after(job)]
           /\ UNCHANGED products
        \/ /\ UNCHANGED faults
           /\ products' = UpsertProductServer(products, v[1], v[2])
           /\ jobs' = [jobs EXCEPT ![j] = after([job EXCEPT !.stored = @ + 1])]
  /\ resp' = "none"
  /\ reply' = NoReply
  /\ UNCHANGED lastJob
  /\ UNCHANGED <<sales_data, started>>
  /\ UNCHANGED orderSide
  /\ UNCHANGED mvars
  /\ UNCHANGED surroundings

\* fetchInventoryCosts: the SELECT of the variant ids answers; the cost
\* requests of the batches follow (their errors are caught; the cost column is
\* not represented).
InventoryCosts(j) ==
  /\ j \in DOMAIN jobs
  /\ jobs[j].pc = "costs"
  /\ \/ /\ Fault
        /\ EndRefresh(j, "500", NoReply)
     \/ /\ UNCHANGED faults
        /\ jobs' = [jobs EXCEPT ![j] = StartSales(jobs[j])]
        /\ resp' = "none"
        /\ reply' = NoReply
        /\ UNCHANGED lastJob
  /\ UNCHANGED <<products, sales_data, started>>
  /\ UNCHANGED orderSide
  /\ UNCHANGED mvars
  /\ UNCHANGED surroundings

\* importSalesData: one page of orders.json answers; after the last page the
\* sales are totalled per variant.
FetchSales(j) ==
  /\ j \in DOMAIN jobs
  /\ jobs[j].pc = "sales"
  /\ jobs[j].kind \in {"refreshInventory", "autoRefresh"}
  /\ \/ /\ Fault
        /\ EndRefresh(j, "500", NoReply)
     \/ /\ UNCHANGED faults
        /\ LET job == jobs[j]
               page == PageOf(job.since, job.pageInfo)
               all == job.allOrders \o page
               salesByVariant == SalesByVariantServer(<<>>, SaleLines(all), now)
           IN jobs' = [jobs EXCEPT ![j] =
                IF HasNextLink(job.since, job.pageInfo)
                THEN [job EXCEPT !.allOrders = all, !.pageInfo = page[Len(page)]]
                ELSE [job EXCEPT !.allOrders = all,
                                 !.salesQueue = salesByVariant,
                                 !.total = Len(salesByVariant),
                                 !.pc = IF salesByVariant = <<>> THEN "zero"
                                        ELSE "storesales"]]
        /\ resp' = "none"
        /\ reply' = NoReply
        /\ UNCHANGED lastJob
  /\ UNCHANGED <<products, sales_data, started>>
  /\ UNCHANGED orderSide
  /\ UNCHANGED mvars
  /\ UNCHANGED surroundings

\* importSalesData: the INSERT of one variant's counters answers; an error is
\* logged and the variant skipped.
StoreSales(j) ==
  /\ j \in DOMAIN jobs
  /\ jobs[j].pc = "storesales"
  /\ jobs[j].kind \in {"refreshInventory", "autoRefresh"}
  /\ LET job == jobs[j]
         after(r) == [r EXCEPT !.salesQueue = Tail(job.salesQueue),
                               !.pc = IF Tail(job.salesQueue) = <<>>
                                      THEN "zero" ELSE "storesales"]
     IN \/ /\ Fault
           /\ jobs' = [jobs EXCEPT ![j] = after(job)]
           /\ UNCHANGED sales_data
        \/ /\ UNCHANGED faults
           /\ sales_data' = UpsertSales(sales_data, Head(job.salesQueue))
           /\ jobs' = [jobs EXCEPT ![j] = after([job EXCEPT !.updated = @ + 1])]
  /\ resp' = "none"
  /\ reply' = NoReply
  /\ UNCHANGED lastJob
  /\ UNCHANGED <<products, started>>
  /\ UNCHANGED orderSide
  /\ UNCHANGED mvars
  /\ UNCHANGED surroundings

\* importSalesData: the INSERT of zero rows for products without sales answers.
ZeroSales(j) ==
  /\ j \in DOMAIN jobs
  /\ jobs[j].pc = "zero"
  /\ \/ /\ Fault
        /\ EndRefresh(j, "500", NoReply)
        /\ UNCHANGED sales_data
     \/ /\ UNCHANGED faults
        /\ sales_data' = ZeroSalesFill(sales_data, products)
        /\ jobs' = [jobs EXCEPT ![j].pc = "counts"]
        /\ resp' = "none"
        /\ reply' = NoReply
        /\ UNCHANGED lastJob
  /\ UNCHANGED <<products, started>>
  /\ UNCHANGED orderSide
  /\ UNCHANGED mvars
  /\ UNCHANGED surroundings

\* importSalesData: its two COUNT queries answer, it returns, and the caller
\* responds.
SalesCounts(j) ==
  /\ j \in DOMAIN jobs
  /\ jobs[j].pc = "counts"
  /\ \/ /\ Fault
        /\ EndRefresh(j, "500", NoReply)
     \/ /\ UNCHANGED faults
        /\ EndRefresh(j, "ok", [kind |-> "refreshInventory",
                                productsUpdated |-> jobs[j].stored,
                                salesUpdated |-> jobs[j].updated])
  /\ UNCHANGED <<products, sales_data, started>>
  /\ UNCHANGED orderSide
  /\ UNCHANGED mvars
  /\ UNCHANGED surroundings

-----------------------------------------------------------------------------
(* src/unnamed/part_003: refreshCache *)

\* isProperlyFormatted: not equal to its upper-case form, and matching /[a-z]/.
IsProperlyFormatted(title) ==
  IF title = ToUpperCase(title) THEN FALSE
  ELSE IF ~ \E k \in DOMAIN title : title[k] = "l" THEN FALSE
  ELSE TRUE

\* importProducts: INSERT INTO products ... ON CONFLICT (variant_id) DO UPDATE;
\* a missing barcode is stored as NULL.
UpsertProductCache(tbl, p, k) ==
  LET variant == catalog[p].variants[k]
      row == [variant_id |-> VariantId(p, k), product_id |-> p,
              title |-> catalog[p].title,
              barcode |-> IF variant.barcode # 0 THEN variant.barcode ELSE Null,
              inventory_quantity |-> variant.inventory_quantity]
  IN IF \E n \in DOMAIN tbl : tbl[n].variant_id = row.variant_id
     THEN [n \in DOMAIN tbl |->
             IF tbl[n].variant_id = row.variant_id THEN row ELSE tbl[n]]
     ELSE Append(tbl, row)

\* importSalesData (part_003): one line item added to salesByVariant; `at` is
\* the clock read when the function started.
AddSaleCache(acc, line, at) ==
  LET k == SalesIndex(acc, line.variant_id)
      zero == [variant_id |-> line.variant_id, daily_sales |-> 0,
               weekly_sales |-> 0, monthly_sales |-> 0, quarterly_sales |-> 0,
               yearly_sales |-> 0, all_time_sales |-> 0]
      all == IF k = 0 THEN Append(acc, zero) ELSE acc
      n == IF k = 0 THEN Len(all) ELSE k
      qty == line.quantity
      orderDate == line.created_at
  IN [all EXCEPT
        ![n].all_time_sales = @ + qty,
        ![n].daily_sales = IF orderDate >= at - Day THEN @ + qty ELSE @,
        ![n].weekly_sales = IF orderDate >= at - WeekDays * Day THEN @ + qty ELSE @,
        ![n].monthly_sales =
          IF orderDate >= at - MonthDays * Day THEN @ + qty ELSE @,
        ![n].quarterly_sales =
          IF orderDate >= at - QuarterDays * Day THEN @ + qty ELSE @,
        ![n].yearly_sales = IF orderDate >= at - YearDays * Day THEN @ + qty ELSE @]

RECURSIVE SalesByVariantCache(_, _, _)
SalesByVariantCache(acc, lines, at) ==
  IF lines = <<>> THEN acc
  ELSE SalesByVariantCache(AddSaleCache(acc, Head(lines), at), Tail(lines), at)

\* Object.entries(salesByVariant): integer keys in ascending order.
Entries(acc) ==
  LET ids == TakeLowest({acc[k].variant_id : k \in DOMAIN acc}, Len(acc))
  IN [n \in DOMAIN ids |-> acc[SalesIndex(acc, ids[n])]]

\* The refreshCache action responds: with the product count, or with 500 from
\* the catch block of POST /api/shopify.
EndCache(j, status, body) ==
  /\ jobs' = Remove(jobs, j)
  /\ resp' = status
  /\ reply' = body
  /\ lastJob' = Logged(IF status = "ok" THEN "ok" ELSE "failed")

\* POST /api/shopify, action refreshCache, up to the first await of
\* importProducts.
RefreshCache(hasCredentials) ==
  /\ build = "cache"
  /\ IF ~hasCredentials
     THEN /\ resp' = "400"
          /\ UNCHANGED <<jobs, started>>
     ELSE /\ started < MaxSyncs
          /\ started' = started + 1
          /\ jobs' = Append(jobs, [IdleJob EXCEPT !.pc = "import",
                                                  !.kind = "refreshCache"])
          /\ resp' = "none"
  /\ reply' = NoReply
  /\ UNCHANGED lastJob
  /\ UNCHANGED <<products, sales_data, faults>>
  /\ UNCHANGED orderSide
  /\ UNCHANGED mvars
  /\ UNCHANGED surroundings

\* importProducts is done with a page: it requests the next one, or returns
\* and importSalesData starts (reading the clock, requesting its first page).
AfterImport(job) ==
  IF job.hasNextPage THEN [job EXCEPT !.pc = "import"]
  ELSE [job EXCEPT !.pc = "sales", !.since = now - YearDays * Day,
                   !.pageInfo = Null]

\* importProducts: one page of products.json answers; the products that are
\* not properly formatted are counted as skipped.
ImportPage(j) ==
  /\ j \in DOMAIN jobs
  /\ jobs[j].pc = "import"
  /\ \/ /\ Fault
        /\ EndCache(j, "500", NoReply)
     \/ /\ UNCHANGED faults
        /\ LET job == jobs[j]
               page == ProductPage(job.pageInfo)
               kept == SelectSeq(page,
                         LAMBDA p : IsProperlyFormatted(catalog[p].title))
               paged == [job EXCEPT
                           !.skipped = @ + Len(page) - Len(kept),
                           !.hasNextPage = ProductsNextLink(job.pageInfo),
                           !.pageInfo = IF page = <<>> THEN @ ELSE page[Len(page)]]
           IN jobs' = [jobs EXCEPT ![j] =
                IF VariantsOf(kept) = <<>> THEN AfterImport(paged)
                ELSE [paged EXCEPT !.pc = "importing",
                                   !.queue = VariantsOf(kept)]]
        /\ resp' = "none"
        /\ reply' = NoReply
        /\ UNCHANGED lastJob
  /\ UNCHANGED <<products, sales_data, started>>
  /\ UNCHANGED orderSide
  /\ UNCHANGED mvars
  /\ UNCHANGED surroundings

\* importProducts: the INSERT of one variant answers; an error is logged and
\* the variant skipped.
ImportVariant(j) ==
  /\ j \in DOMAIN jobs
  /\ jobs[j].pc = "importing"
  /\ LET job == jobs[j]
         v == Head(job.queue)
         after(r) == IF Tail(job.queue) = <<>> THEN AfterImport(r)
                     ELSE [r EXCEPT !.queue = Tail(job.queue)]
     IN \/ /\ Fault
           /\ jobs' = [jobs EXCEPT ![j] = after(job)]
           /\ UNCHANGED products
        \/ /\ UNCHANGED faults
           /\ products' = UpsertProductCache(products, v[1], v[2])
           /\ jobs' = [jobs EXCEPT ![j] = after([job EXCEPT !.stored = @ + 1])]
  /\ resp' = "none"
  /\ reply' = NoReply
  /\ UNCHANGED lastJob
  /\ UNCHANGED <<sales_data, started>>
  /\ UNCHANGED orderSide
  /\ UNCHANGED mvars
  /\ UNCHANGED surroundings

\* importSalesData (part_003): one page of orders.json answers; after the last
\* page the sales are totalled per variant.
CacheFetchSales(j) ==
  /\ j \in DOMAIN jobs
  /\ jobs[j].pc = "sales"
  /\ jobs[j].kind = "refreshCache"
  /\ \/ /\ Fault
        /\ EndCache(j, "500", NoReply)
     \/ /\ UNCHANGED faults
        /\ LET job == jobs[j]
               page == PageOf(job.since, job.pageInfo)
               all == job.allOrders \o page
               salesByVariant ==
                 SalesByVariantCache(<<>>, SaleLines(all), job.since + YearDays * Day)
           IN jobs' = [jobs EXCEPT ![j] =
                IF HasNextLink(job.since, job.pageInfo)
                THEN [job EXCEPT !.allOrders = all, !.pageInfo = page[Len(page)]]
                ELSE [job EXCEPT !.allOrders = all,
                                 !.salesQueue = Entries(salesByVariant),
                                 !.total = Len(salesByVariant),
                                 !.pc = IF salesByVariant = <<>> THEN "count"
                                        ELSE "storesales"]]
        /\ resp' = "none"
        /\ reply' = NoReply
        /\ UNCHANGED lastJob
  /\ UNCHANGED <<products, sales_data, started>>
  /\ UNCHANGED orderSide
  /\ UNCHANGED mvars
  /\ UNCHANGED surroundings

\* importSalesData (part_003): the INSERT of one variant's counters answers;
\* an error ends the import.
CacheStoreSales(j) ==
  /\ j \in DOMAIN jobs
  /\ jobs[j].pc = "storesales"
  /\ jobs[j].kind = "refreshCache"
  /\ \/ /\ Fault
        /\ EndCache(j, "500", NoReply)
        /\ UNCHANGED sales_data
     \/ /\ UNCHANGED faults
        /\ LET job == jobs[j]
           IN /\ sales_data' = UpsertSales(sales_data, Head(job.salesQueue))
              /\ jobs' = [jobs EXCEPT ![j] =
                   [job EXCEPT !.salesQueue = Tail(job.salesQueue),
                               !.updated = @ + 1,
                               !.pc = IF Tail(job.salesQueue) = <<>>
                                      THEN "count" ELSE "storesales"]]
        /\ resp' = "none"
        /\ reply' = NoReply
        /\ UNCHANGED lastJob
  /\ UNCHANGED <<products, started>>
  /\ UNCHANGED orderSide
  /\ UNCHANGED mvars
  /\ UNCHANGED surroundings

\* The SELECT COUNT(*) FROM products of the refreshCache action answers.
CountProducts(j) ==
  /\ j \in DOMAIN jobs
  /\ jobs[j].pc = "count"
  /\ \/ /\ Fault
        /\ EndCache(j, "500", NoReply)
     \/ /\ UNCHANGED faults
        /\ EndCache(j, "ok", [kind |-> "refreshCache",
                              productCount |-> Len(products),
                              skipped |-> jobs[j].skipped])
  /\ UNCHANGED <<products, sales_data, started>>
  /\ UNCHANGED orderSide
  /\ UNCHANGED mvars
  /\ UNCHANGED surroundings

-----------------------------------------------------------------------------
(* Specifications *)

\* The orders customers (0: a guest checkout) may place.
Shoppers(limit, lists) ==
  \E c \in 0..MaxCust, items \in lists : PlaceOrder(limit, c, items)

\* The requests clients send, with created_at_min and fetchAll drawn from the
\* given sets, and the timer.
Requests(creds, sinces, fetchAlls) ==
  \/ \E c \in creds, s \in sinces, f \in fetchAlls : RefreshOrders(c, s, f)
  \/ \E c \in creds : StoreSettings(c)
  \/ TimerFires
  \/ SyncNow
  \/ \E c \in creds : OrderBlitz(c)

Steps ==
  \/ \E i \in 1..MaxSyncs :
       \/ GetLastOrderDate(i)
       \/ FetchPage(i)
       \/ UpsertOrder(i)
       \/ UpsertItem(i)
       \/ CustomerStats(i)
       \/ Correlations(i)
       \/ Analytics(i)
       \/ BlitzLastOrder(i)
       \/ BlitzFetch(i)
       \/ BlitzUpsertOrder(i)
       \/ BlitzUpsertItem(i)
       \/ BlitzMarkReturning(i)
  \/ \E t \in 1..MaxSyncs :
       \/ CorrDelete(t)
       \/ CorrSelect(t)
       \/ CorrInsert(t)

\* Concurrency: within one hour, requests with credentials arrive and orders
\* are placed at any time, also while runs are in progress.
Next ==
  \/ Shoppers(MaxBusyOrders, LineItemLists)
  \/ Requests({TRUE}, {Null}, {FALSE})
  \/ Steps

Spec == Init /\ [][Next]_vars

\* The pending call of run i returns or throws, and the run continues.
RunStep(i) ==
  \/ GetLastOrderDate(i)
  \/ FetchPage(i)
  \/ UpsertOrder(i)
  \/ UpsertItem(i)
  \/ CustomerStats(i)
  \/ Correlations(i)
  \/ Analytics(i)
  \/ BlitzLastOrder(i)
  \/ BlitzFetch(i)
  \/ BlitzUpsertOrder(i)
  \/ BlitzUpsertItem(i)
  \/ BlitzMarkReturning(i)

\* Progress: every call a run started by a sync trigger waits for returns or
\* throws. Nothing is assumed about requests, orders and the timer.
TriggeredStep ==
  \E i \in 1..MaxSyncs :
    /\ i \in DOMAIN runs
    /\ runs[i].kind \in {"refreshOrders", "blitz"}
    /\ RunStep(i)

SpecFair == Init /\ [][Next]_vars /\ WF_vars(TriggeredStep)

\* Data: within one hour, requests arrive one after the other (a request
\* arrives only when no run is in progress), and orders of every shape are
\* placed between runs.
Quiet == runs = <<>>

NextSeq ==
  \/ Quiet /\ tasks = <<>> /\ Shoppers(MaxOrders, LineItemLists)
  \/ Quiet /\ Requests({TRUE}, {Null, now}, {FALSE})
  \/ Steps

SpecSeq == Init /\ [][NextSeq]_vars

\* Pages: more orders than one page holds are placed between runs, so that a
\* run requests a second page.
NextPages ==
  \/ Quiet /\ tasks = <<>> /\ Shoppers(MaxPagedOrders, {<<1, 2>>})
  \/ Quiet /\ Requests({TRUE}, {Null}, {FALSE})
  \/ Steps

SpecPages == Init /\ [][NextPages]_vars

\* Time: the clock advances and orders of two variants are placed between runs;
\* requests arrive one after the other, with and without created_at_min.
NextClock ==
  \/ Quiet /\ tasks = <<>> /\ (Tick \/ Shoppers(MaxOrders, {<<1, 2>>}))
  \/ Quiet /\ Requests({TRUE}, {Null} \cup (Year..now), {FALSE})
  \/ Steps

SpecClock == Init /\ [][NextClock]_vars

\* The steps of the product and sales syncs in progress.
JobStep(j) ==
  \/ FetchProducts(j)
  \/ StoreVariant(j)
  \/ InventoryCosts(j)
  \/ FetchSales(j)
  \/ StoreSales(j)
  \/ ZeroSales(j)
  \/ SalesCounts(j)
  \/ ImportPage(j)
  \/ ImportVariant(j)
  \/ CacheFetchSales(j)
  \/ CacheStoreSales(j)
  \/ CountProducts(j)

\* The catalog side starts like the order side, on one of the builds that
\* sync products.
InitCatalog ==
  /\ build \in {"server", "cache"}
  /\ now = Year
  /\ remote = <<>>
  /\ lastSettings = FALSE
  /\ orderProcessingStatus =
       [isProcessing |-> FALSE, lastCompleted |-> Null, lastResult |-> NoResult]
  /\ orders = {}
  /\ order_items = <<>>
  /\ product_correlations = {}
  /\ runs = <<>>
  /\ tasks = <<>>
  /\ resp = "none"
  /\ started = 0
  /\ faults = 0
  /\ lastRun = [outcome |-> "none", defaultStart |-> Null, items |-> <<>>,
                remote |-> 0]
  /\ catalog = <<>>
  /\ products = <<>>
  /\ sales_data = {}
  /\ jobs = <<>>
  /\ reply = NoReply
  /\ lastJob = NoJob
  /\ productCache = <<>>
  /\ cacheStatus = "empty"
  /\ cacheRefreshInProgress = FALSE

Idle == jobs = <<>>

\* The variants the products of the catalog specification come with: one
\* variant with a barcode, or one without and one with.
Assortments ==
  {<<[barcode |-> 1, inventory_quantity |-> StockOnHand]>>,
   <<[barcode |-> 0, inventory_quantity |-> StockOnHand],
     [barcode |-> 1, inventory_quantity |-> StockOnHand]>>}

\* Catalog: products of every title are added between syncs; one order sells
\* a variant; inventory refreshes arrive one after the other.
NextCatalog ==
  \/ Idle /\ \E t \in Titles, vs \in Assortments : AddProduct(MaxProducts, t, vs)
  \/ Idle /\ PlaceSale(1, 0, <<1>>, 1)
  \/ Idle /\ (RefreshInventory(TRUE) \/ StoreSettings(TRUE) \/ AutoRefreshInventory
                \/ RefreshCache(TRUE))
  \/ \E j \in 1..MaxSyncs : JobStep(j)

SpecCatalog == InitCatalog /\ [][NextCatalog]_vars

\* Sales: orders of up to MaxSales, placed today, a day and a half ago or
\* almost a year ago, with one or three line items of 1..MaxQty units; the
\* clock advances between syncs, so that an order leaves the year the sales
\* sync asks for.
SaleAges == {0, Day + Day \div 2, Year - Hour}

SaleItems == {<<1>>, <<1, 1, 2>>}

NextSales ==
  \/ Idle /\ AddProduct(1, <<"l", "l">>,
                        <<[barcode |-> 1, inventory_quantity |-> StockOnHand]>>)
  \/ Idle /\ \E age \in SaleAges, items \in SaleItems, q \in 1..MaxQty :
               PlaceSale(MaxSales, age, items, q)
  \/ Idle /\ Tick
  \/ Idle /\ (RefreshInventory(TRUE) \/ RefreshCache(TRUE))
  \/ \E j \in 1..MaxSyncs : JobStep(j)

SpecSales == InitCatalog /\ [][NextSales]_vars

-----------------------------------------------------------------------------
(* Claims *)

\* The step is a sync trigger: a refreshOrders action or a POST /api/order-blitz.
SyncTrigger ==
  \/ \E s \in {Null} \cup (Year..now), f \in BOOLEAN : RefreshOrders(TRUE, s, f)
  \/ OrderBlitz(TRUE)

\* The runs in progress that a sync trigger started.
TriggeredRuns == {i \in DOMAIN runs : runs[i].kind \in {"refreshOrders", "blitz"}}

\* A run ends with success in this step.
RunCompletes == Len(runs') < Len(runs) /\ lastRun'.outcome = "ok"

\* C1: a sync trigger handled while isProcessing is true answers "processing",
\* starts no run (so requests nothing from the remote), writes nothing to the
\* store and leaves isProcessing true; and at no time are two runs started by
\* sync triggers in progress.
C1_TriggerWhileProcessing ==
  [][/\ (orderProcessingStatus.isProcessing /\ SyncTrigger) =>
          /\ resp' = "processing"
          /\ orderProcessingStatus'.isProcessing
          /\ UNCHANGED <<orders, order_items, product_correlations, runs, tasks,
                         started>>
     /\ Cardinality(TriggeredRuns') <= 1]_vars

\* C1 witness: a trigger was just refused while a run is in progress.
C1_Witness ==
  /\ resp = "processing"
  /\ orderProcessingStatus.isProcessing
  /\ TriggeredRuns # {}

\* The runs that execute importOrderData, or the body of the order-blitz
\* handler.
Importing == {i \in DOMAIN runs : runs[i].pc # "lastdate" \/ runs[i].kind = "blitz"}

\* C2: at most one Order Sync run is in progress at any time, counting the
\* refreshOrders action, the background timer and POST /api/orders/sync-now.
C2_AtMostOneRun == Cardinality(Importing) <= 1

\* C3: running the Order Sync Engine twice over the same remote order set
\* leaves the OrderItem rows of the first run: when a run in which no call
\* failed completes, and the run before it completed over the same remote
\* orders, order_items is what that run left.
C3_SyncIdempotent ==
  [][(/\ RunCompletes
      /\ faults' = 0
      /\ lastRun.outcome = "ok"
      /\ lastRun.remote = Len(remote))
     => order_items' = lastRun.items]_vars

\* C4: no two OrderItem rows carry the same order identifier and the same
\* variant identifier (stated for rows that carry a variant identifier).
C4_UniqueOrderVariant ==
  \A i, j \in DOMAIN order_items :
    (/\ i # j
     /\ order_items[i].variant_id # NullVariant
     /\ order_items[i].order_id = order_items[j].order_id)
    => order_items[i].variant_id # order_items[j].variant_id

\* The Order rows of customer c.
OrdersOf(c) == {r \in orders : r.customer_id = c}

\* C5: after every completed run (here: one in which no call failed), for
\* every customer who owns an Order row, is_returning_customer is TRUE on
\* every row of the customer if and only if the customer owns at least 2 rows.
C5_ReturningFlag ==
  [][(RunCompletes /\ faults' = 0) =>
       \A c \in Customers :
         (\E r \in orders' : r.customer_id = c) =>
           ((\A r \in orders' : r.customer_id = c => r.is_returning_customer)
            <=> Cardinality({r \in orders' : r.customer_id = c}) >= 2)]_vars

\* The variant identifiers order_items holds.
StoredVariants(items) ==
  {items[i].variant_id : i \in DOMAIN items} \ {NullVariant}

\* The orders with a line item of variant v, and those with both a and b.
OrdersWith(items, v) ==
  {items[i].order_id : i \in {k \in DOMAIN items : items[k].variant_id = v}}

CoOrders(items, a, b) == OrdersWith(items, a) \cap OrdersWith(items, b)

\* The rows product_correlations holds for the unordered pair {a, b}.
PairRows(tbl, a, b) ==
  {r \in tbl : {r.variant_a_id, r.variant_b_id} = {a, b}}

\* The step leaves the correlations recomputed: the INSERT ... SELECT of
\* importOrderData succeeded, or the order-blitz handler completed and every
\* calculateCorrelations call has returned.
Recomputed ==
  \/ /\ build = "server"
     /\ Len(runs') = Len(runs)
     /\ \E i \in DOMAIN runs : runs[i].pc = "corr" /\ runs'[i].pc = "analytics"
  \/ /\ build = "blitz"
     /\ runs' = <<>>
     /\ tasks' = <<>>
     /\ lastRun'.outcome = "ok"

\* C6: after a completed run and correlation recompute, for any two distinct
\* variants that appear together in at least 2 orders, product_correlations
\* holds exactly one row for the unordered pair, and it stores the lower
\* identifier first.
C6_OneRowPerPair ==
  [][Recomputed =>
       \A a, b \in StoredVariants(order_items') :
         (VariantLess(a, b) /\ Cardinality(CoOrders(order_items', a, b)) >= 2)
         => /\ Cardinality(PairRows(product_correlations', a, b)) = 1
            /\ \A r \in PairRows(product_correlations', a, b) :
                 r.variant_a_id = a /\ r.variant_b_id = b]_vars

\* C6 witness: a correlation row exists for two variants that one order lists
\* in one order of appearance and another order in the opposite one.
C6_Witness ==
  \E r \in product_correlations :
    \E i, j, k, l \in DOMAIN order_items :
      /\ order_items[i].order_id = order_items[j].order_id
      /\ order_items[k].order_id = order_items[l].order_id
      /\ order_items[i].order_id # order_items[k].order_id
      /\ order_items[i].variant_id = r.variant_a_id
      /\ order_items[j].variant_id = r.variant_b_id
      /\ order_items[k].variant_id = r.variant_a_id
      /\ order_items[l].variant_id = r.variant_b_id
      /\ order_items[i].cart_position < order_items[j].cart_position
      /\ order_items[k].cart_position > order_items[l].cart_position

\* C7: after a recompute, every row's co_purchase_count is the number of
\* distinct orders that contain both variants of its pair, and is at least 2
\* (so no row exists for a pair that co-occurs in fewer than 2 orders).
C7_CountIsDistinctOrders ==
  [][Recomputed =>
       \A r \in product_correlations' :
         /\ r.co_purchase_count =
              Cardinality(CoOrders(order_items', r.variant_a_id, r.variant_b_id))
         /\ r.co_purchase_count >= 2]_vars

\* C8: after a recompute, every row's correlation_score times the number of
\* distinct orders containing either variant of its pair is its
\* co_purchase_count (to the precision of the DECIMAL(5,4) column), and the
\* score is greater than 0 and at most 1.
C8_ScoreIsRatio ==
  [][Recomputed =>
       \A r \in product_correlations' :
         LET d == OrdersWithEither(order_items', r.variant_a_id, r.variant_b_id)
             e == r.correlation_score * d - r.co_purchase_count * ScoreScale
         IN /\ 2 * e <= d
            /\ 0 - 2 * e <= d
            /\ r.correlation_score > 0
            /\ r.correlation_score <= ScoreScale]_vars

\* The step fixes the fetch window of a run: the run's first request to the
\* remote is issued. (Runs are numbered from the oldest; under SpecClock at
\* most one is in progress.)
WindowOpens ==
  /\ runs' # <<>>
  /\ runs'[1].pc = "fetch"
  /\ runs = <<>> \/ runs[1].pc = "lastdate"

\* The run was given no 'since' value, and the query for the last order date
\* did not fail.
NoSince == runs'[1].mode \in {"default", "incremental"}

\* C9: when a run without 'since' starts after a run that succeeded, its fetch
\* window starts no earlier than the maximum order_date stored minus the one
\* hour of lookback, and no earlier than the default window of that first run.
C9_MonotonicWindow ==
  [][(WindowOpens /\ NoSince /\ lastRun.outcome = "ok") =>
       /\ orders # {} => runs'[1].startDate >= MaxOrderDate(orders) - Hour
       /\ lastRun.defaultStart # Null =>
            runs'[1].startDate >= lastRun.defaultStart]_vars

\* C10: a run started with no 'since' value fetches from exactly one hour
\* before the maximum order_date in the store when the store holds an order,
\* and from one year before now when it holds none.
C10_DefaultWindow ==
  [][(WindowOpens /\ NoSince) =>
       runs'[1].startDate = IF orders # {} THEN MaxOrderDate(orders) - Hour
                            ELSE now - Year]_vars

-----------------------------------------------------------------------------
(* The read side of src/server.js and src/unnamed/part_003 *)

Sentinel == 999
CriticalDays == 3
HighDays == 7
MediumDays == 14

\* WHERE p.barcode = $1: the products rows that carry the code.
Carrying(tbl, upc) == {n \in DOMAIN tbl : tbl[n].barcode = upc}

\* Mutant: the first row is read without the test of result.rows.length; the
\* TypeError lands in the handler's catch.
LookupStatusUnchecked(rows) == IF rows = {} THEN 500 ELSE 200

\* if (result.rows.length === 0) return res.status(404) ...; res.json(...)
LookupStatus(rows) == IF rows = {} THEN 404 ELSE 200

\* GET /api/product/:upc (a routed request has a non-empty upc, so the 400
\* of server.js 1562 is never taken). A query that rejects is answered 500
\* by the catch.
LookupProduct(upc) ==
  /\ build \in {"server", "cache"}
  /\ \/ /\ faults < MaxFaults
        /\ faults' = faults + 1
        /\ reply' = [kind |-> "lookup", upc |-> upc, status |-> 500]
     \/ /\ faults' = faults
        /\ reply' = [kind |-> "lookup", upc |-> upc,
                     status |-> LookupStatus(Carrying(products, upc))]
  /\ UNCHANGED <<catalog, products, sales_data, jobs, lastJob>>
  /\ UNCHANGED orderSide
  /\ UNCHANGED mvars
  /\ UNCHANGED <<build, now, remote, lastSettings, resp, started>>

\* Mutant: days left without the sentinel for a variant that does not sell.
DaysLeftNoSentinel(stock, velocity) ==
  IF velocity > 0 THEN stock \div velocity ELSE 0

\* velocity > 0 ? Math.floor(stock / velocity) : (stock > 0 ? 999 : 0)
DaysLeft(stock, velocity) ==
  IF velocity > 0 THEN stock \div velocity
  ELSE IF stock > 0 THEN Sentinel ELSE 0

Risk(daysLeft) ==
  IF daysLeft < 0 THEN "CRITICAL"
  ELSE IF daysLeft <= CriticalDays THEN "CRITICAL"
  ELSE IF daysLeft <= HighDays THEN "HIGH"
  ELSE IF daysLeft <= MediumDays THEN "MEDIUM"
  ELSE "LOW"

\* COALESCE(s.daily_sales, 0) over the LEFT JOIN with sales_data
DailySalesOf(v) ==
  IF \E r \in sales_data : r.variant_id = v
  THEN (CHOOSE r \in sales_data : r.variant_id = v).daily_sales
  ELSE 0

\* One element of the products array of GET /api/products/all.
Listed(row) ==
  LET stock == IF row.inventory_quantity # Null THEN row.inventory_quantity
               ELSE 0
      velocity == DailySalesOf(row.variant_id)
      daysLeft == DaysLeft(stock, velocity)
  IN [variantId |-> row.variant_id, stock |-> stock, velocity |-> velocity,
      daysLeft |-> daysLeft, risk |-> Risk(daysLeft)]

RECURSIVE SumVelocity(_)
SumVelocity(list) ==
  IF list = <<>> THEN 0 ELSE Head(list).velocity + SumVelocity(Tail(list))

\* (sum / totalProducts).toFixed(2), in hundredths; 0 / 0 prints as NaN.
AvgVelocity(list) ==
  IF list = <<>> THEN "NaN"
  ELSE (200 * SumVelocity(list) + Len(list)) \div (2 * Len(list))

\* GET /api/products/all (server.js only)
ListProducts ==
  /\ build = "server"
  /\ \/ /\ faults < MaxFaults
        /\ faults' = faults + 1
        /\ reply' = [kind |-> "products", status |-> 500]
     \/ /\ faults' = faults
        /\ LET list == [n \in DOMAIN products |-> Listed(products[n])]
           IN reply' =
                [kind |-> "products", status |-> 200, products |-> list,
                 summary |->
                   [totalProducts |-> Len(list),
                    criticalAlerts |->
                      Cardinality({n \in DOMAIN list :
                                     list[n].daysLeft <= CriticalDays}),
                    highRisk |->
                      Cardinality({n \in DOMAIN list :
                                     /\ list[n].daysLeft > CriticalDays
                                     /\ list[n].daysLeft <= HighDays}),
                    avgVelocity |-> AvgVelocity(list)]]
  /\ UNCHANGED <<catalog, products, sales_data, jobs, lastJob>>
  /\ UNCHANGED orderSide
  /\ UNCHANGED mvars
  /\ UNCHANGED <<build, now, remote, lastSettings, resp, started>>

\* The stores the read side is checked against: empty, or one variant with
\* any barcode the sync stores, any on-hand quantity and any sales row.
StoredBarcodes == {EmptyString, Null} \cup (1..MaxBarcode)

StoredProducts ==
  {<<>>} \cup
  {<<[variant_id |-> 1, product_id |-> 1, title |-> <<"l", "l">>,
      barcode |-> b, inventory_quantity |-> q]>> :
     b \in StoredBarcodes, q \in {Null} \cup ((0 - Oversold)..MaxStock)}

StoredSales ==
  {{}} \cup
  {{[variant_id |-> 1, daily_sales |-> d, weekly_sales |-> d,
     monthly_sales |-> d, quarterly_sales |-> d, yearly_sales |-> d,
     all_time_sales |-> d]} : d \in 0..MaxVelocity}

InitRead ==
  /\ build \in {"server", "cache"}
  /\ now = Year
  /\ remote = <<>>
  /\ lastSettings = FALSE
  /\ orderProcessingStatus =
       [isProcessing |-> FALSE, lastCompleted |-> Null, lastResult |-> NoResult]
  /\ orders = {}
  /\ order_items = <<>>
  /\ product_correlations = {}
  /\ runs = <<>>
  /\ tasks = <<>>
  /\ resp = "none"
  /\ started = 0
  /\ faults = 0
  /\ lastRun = [outcome |-> "none", defaultStart |-> Null, items |-> <<>>,
                remote |-> 0]
  /\ catalog = <<>>
  /\ products \in StoredProducts
  /\ (products # <<>> /\ products[1].barcode = EmptyString) => build = "server"
  /\ (products # <<>> /\ products[1].barcode = Null) => build = "cache"
  /\ sales_data \in StoredSales
  /\ jobs = <<>>
  /\ reply = NoReply
  /\ lastJob = NoJob
  /\ productCache = <<>>
  /\ cacheStatus = "empty"
  /\ cacheRefreshInProgress = FALSE

NextRead ==
  \/ \E upc \in 1..(MaxBarcode + 1) : LookupProduct(upc)
  \/ ListProducts

SpecRead == InitRead /\ [][NextRead]_vars

-----------------------------------------------------------------------------
(* src/api/shopify.js: the request handler *)

Actions == {"test", "getProduct", "other"}

\* The barcodes a request carries as upc (0: none).
Upcs == 0..(MaxBarcode + 1)

\* OPTIONS: the preflight is answered 204.
HandlerPreflight ==
  /\ build = "handler"
  /\ resp' = "204"
  /\ reply' = NoReply
  /\ UNCHANGED <<catalog, products, sales_data, jobs, lastJob>>
  /\ UNCHANGED orderSide
  /\ UNCHANGED mvars
  /\ UNCHANGED <<build, now, remote, lastSettings, started, faults>>

\* GET: 'Backend is alive!'
HandlerGet ==
  /\ build = "handler"
  /\ resp' = "200"
  /\ reply' = [kind |-> "alive"]
  /\ UNCHANGED <<catalog, products, sales_data, jobs, lastJob>>
  /\ UNCHANGED orderSide
  /\ UNCHANGED mvars
  /\ UNCHANGED <<build, now, remote, lastSettings, started, faults>>

\* POST: the body is destructured and the action dispatched, up to the first
\* await. storeName and accessToken tell whether the body carries them.
HandlerPost(storeName, accessToken, action, upc) ==
  /\ build = "handler"
  /\ IF action = "test"
     THEN /\ jobs' = Append(jobs, [kind |-> "test", pc |-> "shop.json",
                                   storeName |-> storeName,
                                   accessToken |-> accessToken, upc |-> upc])
          /\ resp' = "none"
          /\ reply' = NoReply
     ELSE IF action = "getProduct" /\ upc # 0
     THEN /\ jobs' = Append(jobs, [kind |-> "getProduct", pc |-> "products.json",
                                   storeName |-> storeName,
                                   accessToken |-> accessToken, upc |-> upc])
          /\ resp' = "none"
          /\ reply' = NoReply
     ELSE /\ resp' = "200"
          /\ reply' = [kind |-> "ready"]
          /\ UNCHANGED jobs
  /\ UNCHANGED <<catalog, products, sales_data, lastJob>>
  /\ UNCHANGED orderSide
  /\ UNCHANGED mvars
  /\ UNCHANGED <<build, now, remote, lastSettings, started, faults>>

\* How a request of the handler to the platform ends: fetch throws when the
\* host is `undefined` or the network fails; the platform answers 401 to a
\* request without access token.
FetchOutcomes(job) ==
  IF ~job.storeName THEN {"throws"}
  ELSE IF ~job.accessToken THEN {"401", "throws"}
  ELSE {"ok", "throws"}

\* The products of the first page that carry the barcode.
FirstPageMatches(upc) ==
  {p \in {ProductPage(Null)[n] : n \in DOMAIN ProductPage(Null)} :
     \E k \in DOMAIN catalog[p].variants : catalog[p].variants[k].barcode = upc}

\* action 'test': the request of shop.json ends.
HandlerShop(j) ==
  /\ j \in DOMAIN jobs
  /\ jobs[j].kind = "test"
  /\ \E outcome \in FetchOutcomes(jobs[j]) :
       /\ IF outcome = "throws" /\ jobs[j].storeName
          THEN Fault ELSE UNCHANGED faults
       /\ resp' = CASE outcome = "throws" -> "500"
                    [] outcome = "401" -> "401"
                    [] OTHER -> "200"
       /\ reply' = IF outcome = "ok" THEN [kind |-> "shop"] ELSE NoReply
  /\ jobs' = Remove(jobs, j)
  /\ UNCHANGED <<catalog, products, sales_data, lastJob>>
  /\ UNCHANGED orderSide
  /\ UNCHANGED mvars
  /\ UNCHANGED <<build, now, remote, lastSettings, started>>

\* action 'getProduct': the request of products.json ends, and the variants
\* of the page are searched for the barcode.
HandlerProducts(j) ==
  /\ j \in DOMAIN jobs
  /\ jobs[j].kind = "getProduct"
  /\ \E outcome \in FetchOutcomes(jobs[j]) :
       /\ IF outcome = "throws" /\ jobs[j].storeName
          THEN Fault ELSE UNCHANGED faults
       /\ resp' = CASE outcome = "throws" -> "500"
                    [] outcome = "401" -> "401"
                    [] FirstPageMatches(jobs[j].upc) = {} -> "404"
                    [] OTHER -> "200"
       /\ reply' = IF outcome = "ok" /\ FirstPageMatches(jobs[j].upc) # {}
                   THEN [kind |-> "product",
                         product |-> CHOOSE p \in FirstPageMatches(jobs[j].upc) :
                                       \A q \in FirstPageMatches(jobs[j].upc) : p <= q]
                   ELSE NoReply
  /\ jobs' = Remove(jobs, j)
  /\ UNCHANGED <<catalog, products, sales_data, lastJob>>
  /\ UNCHANGED orderSide
  /\ UNCHANGED mvars
  /\ UNCHANGED <<build, now, remote, lastSettings, started>>

InitDispatch ==
  /\ build \in {"server", "cache", "handler"}
  /\ now = Year
  /\ remote = <<>>
  /\ lastSettings = FALSE
  /\ orderProcessingStatus =
       [isProcessing |-> FALSE, lastCompleted |-> Null, lastResult |-> NoResult]
  /\ orders = {}
  /\ order_items = <<>>
  /\ product_correlations = {}
  /\ runs = <<>>
  /\ tasks = <<>>
  /\ resp = "none"
  /\ started = 0
  /\ faults = 0
  /\ lastRun = [outcome |-> "none", defaultStart |-> Null, items |-> <<>>,
                remote |-> 0]
  /\ catalog = <<>>
  /\ products = <<>>
  /\ sales_data = {}
  /\ jobs = <<>>
  /\ reply = NoReply
  /\ lastJob = NoJob
  /\ productCache = <<>>
  /\ cacheStatus = "empty"
  /\ cacheRefreshInProgress = FALSE

\* Dispatch: requests of every shape to the handler, and requests without
\* credentials to the POST /api/shopify of server.js and part_003, one after
\* the other, over any catalog of up to MaxProducts products.
NextDispatch ==
  \/ jobs = <<>> /\ \E t \in Titles, vs \in Assortments :
                      AddProduct(MaxProducts, t, vs)
  \/ RefreshInventory(FALSE)
  \/ RefreshCache(FALSE)
  \/ RefreshOrders(FALSE, Null, FALSE)
  \/ jobs = <<>> /\ HandlerPreflight
  \/ jobs = <<>> /\ HandlerGet
  \/ jobs = <<>> /\ \E storeName \in BOOLEAN, accessToken \in BOOLEAN,
                       action \in Actions, upc \in Upcs :
                      HandlerPost(storeName, accessToken, action, upc)
  \/ \E j \in 1..MaxSyncs : HandlerShop(j) \/ HandlerProducts(j)

SpecDispatch == InitDispatch /\ [][NextDispatch]_vars

-----------------------------------------------------------------------------
(* Claims on the catalog side *)

\* A product or sales sync ends with success in this step.
JobCompletes == Len(jobs') < Len(jobs) /\ lastJob'.outcome = "ok"

\* C11: when a product sync in which no call failed completes after a sync
\* that succeeded over the same remote catalog, products has the row count
\* the first sync left, and one row per variant identifier.
C11_ProductSyncIdempotent ==
  [][(JobCompletes /\ faults' = 0 /\ lastJob'.again) =>
       /\ Len(products') = lastJob.rows
       /\ \A m, n \in DOMAIN products' :
            m # n => products'[m].variant_id # products'[n].variant_id]_vars

\* C11 witness: a second sync over the same catalog of two products has
\* completed, and products holds rows.
C11_Witness ==
  /\ jobs = <<>>
  /\ lastJob.outcome = "ok"
  /\ lastJob.again
  /\ faults = 0
  /\ Len(catalog) = 2
  /\ Len(products) >= 2

\* The title contains a lower-case letter (a-z).
HasLowerCase(title) == \E k \in DOMAIN title : title[k] = "l"

\* The products rows of the p-th product of the catalog.
RowsOf(tbl, p) == {n \in DOMAIN tbl : tbl[n].product_id = p}

\* C12: after a product sync in which no call failed, products holds no row
\* of a product whose title contains no lower-case letter and a row for every
\* variant of every product whose title contains one; and the skipped count
\* the sync reports is the number of products without lower-case letter.
C12_TitleFilter ==
  [][(JobCompletes /\ faults' = 0) =>
       /\ \A p \in DOMAIN catalog :
            IF HasLowerCase(catalog[p].title)
            THEN \A k \in DOMAIN catalog[p].variants :
                   \E n \in DOMAIN products' :
                     products'[n].variant_id = VariantId(p, k)
            ELSE RowsOf(products', p) = {}
       /\ reply'.kind = "refreshCache" =>
            reply'.skipped =
              Cardinality({p \in DOMAIN catalog : ~HasLowerCase(catalog[p].title)})]_vars

\* C13: a barcode lookup whose query is answered, for a code that no
\* products row carries, is answered 404 and not 500, in every store.
C13_LookupNotFound ==
  [][\A upc \in 1..(MaxBarcode + 1) :
       (LookupProduct(upc) /\ faults' = faults /\ Carrying(products, upc) = {})
         => reply'.status = 404]_vars

\* C13 witness: a lookup in a store that holds a variant with another
\* barcode was answered 404.
C13_Witness ==
  /\ reply.kind = "lookup"
  /\ reply.status = 404
  /\ products # <<>>
  /\ products[1].barcode \in 1..MaxBarcode
  /\ Carrying(products, reply.upc) = {}

\* C14: every element of the inventory listing has days left equal to
\* floor(stock / velocity) when velocity > 0 and to the sentinel when
\* velocity = 0 and stock > 0, and is CRITICAL when days left is negative or
\* at most 3, HIGH when at most 7, MEDIUM when at most 14, otherwise LOW; a
\* variant that does not sell and has stock is LOW.
C14_RiskClassification ==
  (reply.kind = "products" /\ reply.status = 200) =>
    \A n \in DOMAIN reply.products :
      LET e == reply.products[n]
      IN /\ e.stock = IF products[n].inventory_quantity = Null THEN 0
                      ELSE products[n].inventory_quantity
         /\ e.velocity >= 0
         /\ e.velocity > 0 => e.daysLeft * e.velocity <= e.stock
                              /\ e.stock < (e.daysLeft + 1) * e.velocity
         /\ (e.velocity = 0 /\ e.stock > 0) =>
              (e.daysLeft = Sentinel /\ e.risk = "LOW")
         /\ e.risk = "CRITICAL" <=> (e.daysLeft < 0 \/ e.daysLeft <= 3)
         /\ e.risk = "HIGH" <=> (e.daysLeft > 3 /\ e.daysLeft <= 7)
         /\ e.risk = "MEDIUM" <=> (e.daysLeft > 7 /\ e.daysLeft <= 14)
         /\ e.risk = "LOW" <=> e.daysLeft > 14

\* C14 witness: the listing holds a variant that does not sell, with stock,
\* classified LOW.
C14_Witness ==
  /\ reply.kind = "products"
  /\ reply.status = 200
  /\ \E n \in DOMAIN reply.products :
       /\ reply.products[n].velocity = 0
       /\ reply.products[n].stock > 0
       /\ reply.products[n].risk = "LOW"

\* C15: isProcessing is true only while a run started by a sync trigger is
\* in progress, and whenever it is true it is false again later: the run ends
\* with success, without orders, or with a failed fetch or store call.
C15_ProcessingEnds ==
  /\ [](orderProcessingStatus.isProcessing => TriggeredRuns # {})
  /\ (orderProcessingStatus.isProcessing
        ~> ~orderProcessingStatus.isProcessing)

\* C15 witness: a run started by the trigger has failed on a call, and
\* isProcessing is false again.
C15_Witness ==
  /\ build = "blitz"
  /\ resp = "500"
  /\ faults > 0
  /\ lastRun.outcome = "failed"
  /\ runs = <<>>
  /\ ~orderProcessingStatus.isProcessing

\* C16: when a page request of a run of importOrderData fails after a page
\* was retrieved, the run goes on to store the orders retrieved so far.
C16_PartialPagesKept ==
  [][\A i \in 1..MaxSyncs :
       (/\ i \in DOMAIN runs
        /\ runs[i].kind \in {"refreshOrders", "background"}
        /\ runs[i].pageCount >= 1
        /\ FetchPage(i)
        /\ faults' > faults)
         => /\ Len(runs') = Len(runs)
            /\ runs'[i].pc = "order"
            /\ runs'[i].allOrders = runs[i].allOrders]_vars

\* C17: when the store call of one line item fails and the order has further
\* line items, the run goes on with the next line item of the same order.
C17_OnlyFailedItemSkipped ==
  [][\A i \in 1..MaxSyncs :
       (/\ i \in DOMAIN runs
        /\ runs[i].pc = "item"
        /\ UpsertItem(i) \/ BlitzUpsertItem(i)
        /\ faults' > faults
        /\ (IF runs[i].kind = "blitz" THEN runs[i].cartPosition + 1
            ELSE runs[i].cartPosition)
             < Len(remote[runs[i].allOrders[runs[i].idx]].line_items))
         => /\ Len(runs') = Len(runs)
            /\ runs'[i].pc = "item"
            /\ runs'[i].idx = runs[i].idx
            /\ runs'[i].cartPosition = runs[i].cartPosition + 1]_vars

\* The line items of the orders a sales sync starting now fetches: those of
\* the orders created within the last year.
FetchedLines ==
  SaleLines(SelectSeq([id \in 1..Len(remote) |-> id],
                      LAMBDA id : remote[id].created_at >= now - Year))

\* The units of variant v in the line items whose order is at most `hours` old.
RECURSIVE SoldWithin(_, _, _)
SoldWithin(lines, v, hours) ==
  IF lines = <<>> THEN 0
  ELSE (IF Head(lines).variant_id = v /\ now - Head(lines).created_at <= hours
        THEN Head(lines).quantity ELSE 0)
       + SoldWithin(Tail(lines), v, hours)

\* The variants with a line item in the fetched orders.
SoldVariants == {FetchedLines[k].variant_id : k \in DOMAIN FetchedLines}

\* The counters a sales sync over the fetched orders is to store for v.
ExpectedSales(v) ==
  [variant_id |-> v,
   daily_sales |-> SoldWithin(FetchedLines, v, Day),
   weekly_sales |-> SoldWithin(FetchedLines, v, WeekDays * Day),
   monthly_sales |-> SoldWithin(FetchedLines, v, MonthDays * Day),
   quarterly_sales |-> SoldWithin(FetchedLines, v, QuarterDays * Day),
   yearly_sales |-> SoldWithin(FetchedLines, v, YearDays * Day),
   all_time_sales |-> SoldWithin(FetchedLines, v, Year)]

\* C18: after a sales sync in which no call failed, the sales_data row of
\* every variant sold in the fetched orders holds, for each window, the sum
\* of the quantities of the variant's line items whose order is within it.
C18_WindowSums ==
  [][(JobCompletes /\ faults' = 0) =>
       \A v \in SoldVariants : ExpectedSales(v) \in sales_data']_vars

\* C19: after a sales sync in which no call failed, a variant without line
\* item in the fetched orders has no counter above zero.
C19_OnlyThisRun ==
  [][(JobCompletes /\ faults' = 0) =>
       \A r \in sales_data' :
         r.variant_id \notin SoldVariants =>
           /\ r.daily_sales = 0
           /\ r.weekly_sales = 0
           /\ r.monthly_sales = 0
           /\ r.quarterly_sales = 0
           /\ r.yearly_sales = 0
           /\ r.all_time_sales = 0]_vars

\* The request was answered with a client error, and no request to the
\* platform and no sync was started.
Rejected ==
  /\ resp' \in {"400", "401", "403", "404", "422"}
  /\ UNCHANGED <<jobs, runs, tasks, products, sales_data, orders, order_items>>

\* C20: a request to the action dispatch without store name or access token,
\* and a getProduct action without upc, is answered with a 4xx status before
\* any request to the platform and any store access.
C20_RejectedBeforeRemote ==
  [][/\ \A storeName \in BOOLEAN, accessToken \in BOOLEAN,
          action \in Actions, upc \in Upcs :
          (/\ HandlerPost(storeName, accessToken, action, upc)
           /\ ~storeName \/ ~accessToken \/ (action = "getProduct" /\ upc = 0))
            => Rejected
     /\ (\/ RefreshInventory(FALSE)
         \/ RefreshCache(FALSE)
         \/ RefreshOrders(FALSE, Null, FALSE)) => Rejected]_vars

\* Timers: in server.js, over a shop without orders, settings are stored or
\* refused, both timers fire and requests with credentials arrive at any time.
InitTimer == Init /\ build = "server"

NextTimer ==
  \/ jobs = <<>> /\ \E t \in Titles, vs \in Assortments : AddProduct(1, t, vs)
  \/ \E c \in BOOLEAN : StoreSettings(c)
  \/ TimerFires
  \/ SyncNow
  \/ AutoRefreshInventory
  \/ RefreshOrders(TRUE, Null, FALSE)
  \/ RefreshInventory(TRUE)
  \/ \E i \in 1..MaxSyncs : GetLastOrderDate(i) \/ FetchPage(i)
  \/ \E j \in 1..MaxSyncs :
       \/ FetchProducts(j)
       \/ StoreVariant(j)
       \/ InventoryCosts(j)
       \/ FetchSales(j)
       \/ ZeroSales(j)
       \/ SalesCounts(j)

SpecTimer == InitTimer /\ [][NextTimer]_vars

\* Page cap: in server.js, a platform that keeps announcing next pages
\* answers the runs of the refreshOrders action, with and without fetchAll.
NextCap ==
  \/ Quiet /\ PlaceOrder(1, 0, <<1, 2>>)
  \/ Quiet /\ \E f \in BOOLEAN : RefreshOrders(TRUE, Null, f)
  \/ \E i \in 1..MaxSyncs :
       \/ FetchEndless(i)
       \/ FetchPage(i)
       \/ UpsertOrder(i)
       \/ UpsertItem(i)
       \/ CustomerStats(i)
       \/ Correlations(i)
       \/ Analytics(i)

SpecCap == InitTimer /\ [][NextCap]_vars

\* Overlap: in the order-blitz handler, orders of one variant on two lines
\* next to another are placed at any time, and a request arrives whenever no
\* run is in progress, also while the correlations of an earlier run are
\* still being recomputed.
InitOverlap == Init /\ build = "blitz"

NextOverlap ==
  \/ PlaceOrder(MaxOrders, 0, <<1, 1, 2>>)
  \/ OrderBlitz(TRUE)
  \/ \E i \in 1..MaxSyncs :
       \/ BlitzLastOrder(i)
       \/ BlitzFetch(i)
       \/ BlitzUpsertOrder(i)
       \/ BlitzUpsertItem(i)
       \/ BlitzMarkReturning(i)
  \/ \E t \in 1..MaxSyncs :
       \/ CorrDelete(t)
       \/ CorrSelect(t)
       \/ CorrInsert(t)

SpecOverlap == InitOverlap /\ [][NextOverlap]_vars

-----------------------------------------------------------------------------
(* Claims on the sync status, the windows and the page loops *)

\* GET /api/orders/status: the body the endpoint answers with in this state.
OrdersStatus ==
  [isProcessing |-> orderProcessingStatus.isProcessing,
   lastCompleted |-> orderProcessingStatus.lastCompleted,
   lastResult |-> orderProcessingStatus.lastResult]

\* C22: in every state in which a run of the order sync is executing,
\* whichever entry point started it, the status endpoint reports
\* isProcessing true.
C22_StatusTellsRunning == runs # <<>> => OrdersStatus.isProcessing

\* C24: after a run in which no call failed, every order_items row of a line
\* item without catalog identifier carries a synthetic identifier, and no
\* other row carries the same one.
C24_SyntheticVariant ==
  [][(RunCompletes /\ faults' = 0) =>
       \A m \in DOMAIN order_items' :
         order_items'[m].variant_id[1] # "id" =>
           /\ order_items'[m].variant_id[1] = "custom"
           /\ \A n \in DOMAIN order_items' :
                n # m => order_items'[n].variant_id # order_items'[m].variant_id]_vars

\* C26: while no settings are stored, no run of backgroundOrderSync and no
\* autoRefreshInventory is in progress, so neither timer has requested or
\* written anything; and settings become stored only by POST /api/settings
\* with both store name and access token, not by an action of POST
\* /api/shopify.
C26_TimerNeedsSettings ==
  /\ [](~lastSettings =>
          /\ \A i \in DOMAIN runs : runs[i].kind # "background"
          /\ \A j \in DOMAIN jobs : jobs[j].kind # "autoRefresh")
  /\ [][(~lastSettings /\ lastSettings') => StoreSettings(TRUE)]_vars

\* C26 witness: backgroundOrderSync was called and returned at once although
\* a refreshOrders action had been given credentials: no settings are stored.
C26_Witness ==
  /\ resp = "triggered"
  /\ ~lastSettings
  /\ \E i \in DOMAIN runs : runs[i].kind = "refreshOrders"
  /\ \A i \in DOMAIN runs : runs[i].kind # "background"

\* C30: the step in which a run started by a sync trigger fails sets
\* isProcessing to false and leaves lastCompleted and lastResult as they
\* were; and lastCompleted and lastResult change only in a step in which a
\* run ends with success.
C30_FailureKeepsLastResult ==
  [][/\ \A i \in DOMAIN runs :
          (/\ runs' = Remove(runs, i)
           /\ runs[i].kind \in {"refreshOrders", "blitz"}
           /\ lastRun'.outcome = "failed")
            => orderProcessingStatus' =
                 [orderProcessingStatus EXCEPT !.isProcessing = FALSE]
     /\ (\/ orderProcessingStatus'.lastCompleted
              # orderProcessingStatus.lastCompleted
         \/ orderProcessingStatus'.lastResult # orderProcessingStatus.lastResult)
          => RunCompletes]_vars

\* C30 witness: after a run that succeeded, a triggered run has failed, and
\* the status still shows the completion of the first.
C30_Witness ==
  /\ build = "blitz"
  /\ runs = <<>>
  /\ faults > 0
  /\ lastRun.outcome = "failed"
  /\ ~orderProcessingStatus.isProcessing
  /\ orderProcessingStatus.lastCompleted # Null
  /\ orderProcessingStatus.lastResult # NoResult

\* C27: when a run in which no call failed ends with success, every order
\* of the platform created at or after the start of the run's window has an
\* orders row.
C27_NoGapInWindow ==
  [][\A i \in DOMAIN runs :
       (/\ runs' = Remove(runs, i)
        /\ lastRun'.outcome = "ok"
        /\ faults' = 0)
         => \A id \in 1..Len(remote) :
              remote[id].created_at >= runs[i].startDate
                => \E o \in orders' : o.order_id = id]_vars

\* C25: a run of importOrderData has at most 100 page requests answered or
\* pending, 500 with fetchAll, whatever the platform answers; and the
\* response that reaches the cap ends the fetching even with a next page
\* announced.
C25_PageCap ==
  \A i \in DOMAIN runs :
    runs[i].kind \in {"refreshOrders", "background"} =>
      LET cap == IF runs[i].fetchAll THEN MaxPagesFetchAll ELSE MaxPagesDefault
      IN /\ runs[i].pageCount <= cap
         /\ runs[i].pc = "fetch" => runs[i].pageCount < cap

\* C25 witness: a run without fetchAll has stopped at the hundredth page and
\* stores the order it fetched.
C25_Witness ==
  \E i \in DOMAIN runs :
    /\ ~runs[i].fetchAll
    /\ runs[i].pageCount = MaxPagesDefault
    /\ runs[i].pc = "order"
    /\ runs[i].allOrders # <<>>

\* The pairs and counts product_correlations holds.
StoredCounts ==
  {[variant_a_id |-> r.variant_a_id, variant_b_id |-> r.variant_b_id,
    co_purchase_count |-> r.co_purchase_count] : r \in product_correlations}

\* C23: after runs none of which met an error, once no run is in progress and
\* every calculateCorrelations call has returned, product_correlations holds
\* the pairs and counts its SELECT computes from the current order_items,
\* also when a later run launched its recomputation while an earlier one was
\* still executing.
C23_NoStaleCorrelation ==
  (build = "blitz" /\ runs = <<>> /\ tasks = <<>> /\ faults = 0
   /\ lastRun.outcome = "ok")
  => StoredCounts = CorrelationSelectBlitz(order_items)

-----------------------------------------------------------------------------
(* src/unnamed/part_002 and src/server.js (second program): the in-memory
   product cache. build "newest" is part_002, build "memory" the second
   program of server.js. *)

\* The number of products the platform lists for the cache servers, and the
\* number of page requests one refreshProductCache call is followed for.
MaxListed == 5
MaxRequests == 5

\* part_002: while (hasNextPage && pageCount < 4)
NewestPages == 4

\* A catalog of n products; the cache keeps products by their position.
Listing(n) ==
  [k \in 1..n |-> [title |-> [c \in 1..TitleLen |-> "l"], variants |-> <<>>]]

\* products.json in pages: the number of pages, and the products of page k.
PageCount ==
  IF catalog = <<>> THEN 1 ELSE (Len(catalog) + PageSize - 1) \div PageSize

PageProducts(k) ==
  [n \in 1..(IF k * PageSize <= Len(catalog) THEN PageSize
             ELSE IF (k - 1) * PageSize < Len(catalog)
             THEN Len(catalog) - (k - 1) * PageSize ELSE 0) |->
     (k - 1) * PageSize + n]

\* The Link headers the platform may send with page k: one link per relation,
\* each with the page_info of the page it leads to, in either order (the
\* platform documents "previous" before "next"). <<>>: no Link header.
LinkHeaders(k) ==
  LET previous == [rel |-> "previous", page_info |-> k - 1]
      next == [rel |-> "next", page_info |-> k + 1]
  IN IF k > 1 /\ k < PageCount THEN {<<previous, next>>, <<next, previous>>}
     ELSE IF k < PageCount THEN {<<next>>}
     ELSE IF k > 1 THEN {<<previous>>}
     ELSE {<<>>}

\* linkHeader && linkHeader.includes('rel="next"')
IncludesNext(linkHeader) ==
  \E n \in DOMAIN linkHeader : linkHeader[n].rel = "next"

\* linkHeader.match(/page_info=([^&>]+)/): the first page_info of the header,
\* whichever relation it belongs to.
MatchPageInfo(linkHeader) ==
  IF linkHeader = <<>> THEN Null ELSE linkHeader[1].page_info

\* Mutant: refreshProductCache without its test of cacheRefreshInProgress.
NeverInProgress == FALSE

\* refreshProductCache: if (cacheRefreshInProgress) return;
AlreadyInProgress == cacheRefreshInProgress

\* The refreshProductCache calls between their start and their end.
Executions == {j \in DOMAIN jobs : jobs[j].pc = "page"}

\* A refreshProductCache call past its test, about to request the first page.
NewExecution(caller) ==
  [pc |-> "page", kind |-> caller, pageInfo |-> Null, allProducts |-> <<>>,
   pageCount |-> 0, fetched |-> <<>>]

\* The response of the refreshCache action.
CacheRefreshed(cache, status) ==
  [kind |-> "refreshCache", success |-> TRUE,
   message |-> "Cache refreshed successfully",
   productsLoaded |-> Len(cache), cacheStatus |-> status]

\* POST /api/shopify, action test, up to the await of the shop.json request.
CacheTest ==
  /\ build \in {"newest", "memory"}
  /\ started < MaxSyncs
  /\ started' = started + 1
  /\ jobs' = Append(jobs, [pc |-> "shop", kind |-> "test"])
  /\ resp' = "none"
  /\ reply' = NoReply
  /\ UNCHANGED <<products, sales_data, lastJob, faults>>
  /\ UNCHANGED mvars
  /\ UNCHANGED orderSide
  /\ UNCHANGED surroundings

\* Action test: shop.json answers. An error is reported; otherwise
\* refreshProductCache is called without await (it runs up to its first
\* request, or returns at once) and the handler responds.
CacheShop(j) ==
  /\ j \in DOMAIN jobs
  /\ jobs[j].pc = "shop"
  /\ \/ /\ Fault
        /\ jobs' = Remove(jobs, j)
        /\ resp' = "500"
        /\ reply' = NoReply
        /\ UNCHANGED mvars
     \/ /\ UNCHANGED faults
        /\ IF AlreadyInProgress
           THEN /\ jobs' = Remove(jobs, j)
                /\ UNCHANGED mvars
           ELSE /\ cacheRefreshInProgress' = TRUE
                /\ cacheStatus' = "loading"
                /\ jobs' = Append(Remove(jobs, j), NewExecution("test"))
                /\ UNCHANGED productCache
        /\ resp' = "ok"
        /\ reply' = [kind |-> "test"]
  /\ UNCHANGED <<products, sales_data, lastJob, started>>
  /\ UNCHANGED orderSide
  /\ UNCHANGED surroundings

\* POST /api/shopify, action refreshCache: refreshProductCache is awaited. If
\* it returns at once the handler responds; otherwise it runs up to its first
\* request.
CacheRefresh ==
  /\ build \in {"newest", "memory"}
  /\ started < MaxSyncs
  /\ started' = started + 1
  /\ IF AlreadyInProgress
     THEN /\ resp' = "ok"
          /\ reply' = CacheRefreshed(productCache, cacheStatus)
          /\ UNCHANGED jobs
          /\ UNCHANGED mvars
     ELSE /\ cacheRefreshInProgress' = TRUE
          /\ cacheStatus' = "loading"
          /\ jobs' = Append(jobs, NewExecution("refreshCache"))
          /\ resp' = "none"
          /\ reply' = NoReply
          /\ UNCHANGED productCache
  /\ UNCHANGED <<products, sales_data, lastJob, faults>>
  /\ UNCHANGED orderSide
  /\ UNCHANGED surroundings

\* refreshProductCache returns, with cacheStatus set by the end of its try
\* block or by its catch block and the flag reset by its finally block; the
\* refreshCache action, which awaited it, responds.
EndExecution(j, cache, status) ==
  /\ jobs' = Remove(jobs, j)
  /\ productCache' = cache
  /\ cacheStatus' = status
  /\ cacheRefreshInProgress' = FALSE
  /\ resp' = IF jobs[j].kind = "refreshCache" THEN "ok" ELSE "none"
  /\ reply' = IF jobs[j].kind = "refreshCache"
              THEN CacheRefreshed(cache, status) ELSE NoReply

\* refreshProductCache: the loop condition.
LoopGoesOn(hasNextPage, pageCount) ==
  hasNextPage /\ (build = "newest" => pageCount < NewestPages)

\* refreshProductCache: one page of products.json answers. The page is added
\* to the cache, the Link header read, and after the pause of 100 ms the next
\* page is requested or the call returns.
CachePage(j) ==
  /\ j \in DOMAIN jobs
  /\ jobs[j].pc = "page"
  /\ jobs[j].pageCount < MaxRequests
  /\ \/ /\ Fault
        /\ EndExecution(j, productCache, "error")
     \/ /\ UNCHANGED faults
        /\ LET job == jobs[j]
               k == IF job.pageInfo # Null THEN job.pageInfo ELSE 1
               allProducts == job.allProducts \o PageProducts(k)
               pageCount == job.pageCount + 1
           IN \E linkHeader \in LinkHeaders(k) :
                LET hasNextPage == IncludesNext(linkHeader)
                    pageInfo == IF hasNextPage THEN MatchPageInfo(linkHeader)
                                ELSE job.pageInfo
                IN IF LoopGoesOn(hasNextPage, pageCount)
                   THEN /\ jobs' = [jobs EXCEPT ![j] =
                             [job EXCEPT !.pageInfo = pageInfo,
                                         !.allProducts = allProducts,
                                         !.pageCount = pageCount,
                                         !.fetched = Append(@, k)]]
                        /\ productCache' = allProducts
                        /\ resp' = "none"
                        /\ reply' = NoReply
                        /\ UNCHANGED <<cacheStatus, cacheRefreshInProgress>>
                   ELSE EndExecution(j, allProducts, "ready")
  /\ UNCHANGED <<products, sales_data, lastJob, started>>
  /\ UNCHANGED orderSide
  /\ UNCHANGED surroundings

\* Memory: a cache server over a catalog of up to MaxListed products; test
\* and refreshCache requests arrive at any time.
InitMemory ==
  /\ build \in {"newest", "memory"}
  /\ catalog \in {Listing(n) : n \in 0..MaxListed}
  /\ now = Year
  /\ remote = <<>>
  /\ lastSettings = FALSE
  /\ orderProcessingStatus =
       [isProcessing |-> FALSE, lastCompleted |-> Null, lastResult |-> NoResult]
  /\ orders = {}
  /\ order_items = <<>>
  /\ product_correlations = {}
  /\ runs = <<>>
  /\ tasks = <<>>
  /\ resp = "none"
  /\ started = 0
  /\ faults = 0
  /\ lastRun = [outcome |-> "none", defaultStart |-> Null, items |-> <<>>,
                remote |-> 0]
  /\ products = <<>>
  /\ sales_data = {}
  /\ jobs = <<>>
  /\ reply = NoReply
  /\ lastJob = NoJob
  /\ productCache = <<>>
  /\ cacheStatus = "empty"
  /\ cacheRefreshInProgress = FALSE

NextMemory ==
  \/ CacheTest
  \/ CacheRefresh
  \/ \E j \in 1..MaxSyncs : CacheShop(j) \/ CachePage(j)

SpecMemory == InitMemory /\ [][NextMemory]_vars

-----------------------------------------------------------------------------
(* Claims on the in-memory product cache *)

\* C28: cacheRefreshInProgress is true exactly while one refreshProductCache
\* call is between its start and its end, and never two are; a call made
\* while one is executing starts no execution and leaves the cache, its
\* status and the flag alone; the flag is false once the execution has ended,
\* with 'ready' or with 'error'.
C28_OneRefreshAtATime ==
  /\ [](/\ Cardinality(Executions) <= 1
        /\ cacheRefreshInProgress <=> Executions # {})
  /\ [][(cacheRefreshInProgress
         /\ (CacheRefresh \/ \E j \in DOMAIN jobs : jobs[j].pc = "shop" /\ CacheShop(j)))
        => (UNCHANGED mvars /\ Cardinality(Executions') = Cardinality(Executions))]_vars
  /\ [][(\E j \in Executions : jobs' = Remove(jobs, j))
        => (~cacheRefreshInProgress' /\ cacheStatus' \in {"ready", "error"})]_vars

\* C28 witness: a refreshCache request was answered at once while an
\* execution started by the test action is between two pages.
C28_Witness ==
  /\ cacheRefreshInProgress
  /\ resp = "ok"
  /\ reply.kind = "refreshCache"
  /\ \E j \in Executions : jobs[j].kind = "test" /\ jobs[j].pageCount > 0

\* C29: the refreshCache action answers success: true with 'Cache refreshed
\* successfully' only in the step in which a refreshProductCache call that
\* this request started returns, leaving cacheStatus 'ready' and
\* productCache holding the products of every page, once each.
C29_SuccessMeansRefreshed ==
  [][(resp' = "ok" /\ reply'.kind = "refreshCache")
     => /\ \E j \in Executions :
             jobs[j].kind = "refreshCache" /\ jobs' = Remove(jobs, j)
        /\ cacheStatus' = "ready"
        /\ productCache' = [n \in 1..Len(catalog) |-> n]]_vars

\* C21: a refreshProductCache call requests the first page first and then,
\* with every request, the page the 'next' relation of the preceding
\* response leads to: the n-th page it fetches is page n.
C21_FollowsNextRelation ==
  \A j \in Executions :
    \A n \in DOMAIN jobs[j].fetched : jobs[j].fetched[n] = n

====
